---------------------------- MODULE Spec2Model ----------------------------
(***************************************************************************)
(* PropBot orchestration core: the Planner (app/agent/intent.py) and the   *)
(* Orchestration Engine (app/agent/engine.py).                             *)
(*                                                                         *)
(* Texts are sequences of tokens (TLC has no string concatenation): a      *)
(* fragment streamed by the model is a token <<"frag", node, response,     *)
(* part>>, a rendered string such as f"执行出错: {str(e)}" is the sequence *)
(* of its parts.  depends_on is a set: the code only tests membership in   *)
(* it and iterates it, and a list with repeated entries behaves like the   *)
(* set.                                                                    *)
(***************************************************************************)
EXTENDS Integers, Sequences, FiniteSets, TLC

(***************************************************************************)
(* Bounds of the model.                                                    *)
(***************************************************************************)
\* nodes in one planner reply
MaxNodes == 3

\* The specialist ids the modelled planner reply may name (a subset of the
\* four registered ones) and one id no specialist has.
ReplyRoleIds == {"purchase_consultant", "policy_expert", "financial_advisor"}
UnknownId == "unknown_role"

(***************************************************************************)
(* Specialists (app/agent/roles.py is not part of the sources; the ids are *)
(* those the planner prompt enumerates, intent.py:119-134).                *)
(***************************************************************************)
AllRoleIds ==
    {"financial_advisor", "policy_expert", "market_analyst", "purchase_consultant"}

Synthesizer == "purchase_consultant"

\* get_role(id): the Role or None; the model keeps "is not None".
get_role(id) == id \in AllRoleIds

(***************************************************************************)
(* Planner: ExecutionNode, ExecutionPlan                                   *)
(***************************************************************************)
ExecutionNode(r, d) == [role_id |-> r, depends_on |-> d]

ExecutionPlan(n, why) == [nodes |-> n, reason |-> why]

DefaultPlan(why) == ExecutionPlan(<<ExecutionNode(Synthesizer, {})>>, why)

Range(s) == {s[i] : i \in DOMAIN s}

\* the concatenation of a sequence of sequences
RECURSIVE Flatten(_)
Flatten(ss) == IF ss = <<>> THEN <<>> ELSE Head(ss) \o Flatten(Tail(ss))

role_ids(nodes) == [i \in DOMAIN nodes |-> nodes[i].role_id]

\* ExecutionPlan.get_ready_nodes: the indices (in plan order) of the nodes
\* that are not completed and whose every dependency is completed.
RECURSIVE ReadyFrom(_, _, _)
ReadyFrom(nodes, completedSet, i) ==
    IF i > Len(nodes) THEN <<>>
    ELSE IF nodes[i].role_id \in completedSet
         THEN ReadyFrom(nodes, completedSet, i + 1)
         ELSE IF \A dep \in nodes[i].depends_on : dep \in completedSet
              THEN <<i>> \o ReadyFrom(nodes, completedSet, i + 1)
              ELSE ReadyFrom(nodes, completedSet, i + 1)

get_ready_nodes_any(nodes, completedSet) ==
    SelectSeq([i \in DOMAIN nodes |-> i],
              LAMBDA i : nodes[i].role_id \notin completedSet)

get_ready_nodes(nodes, completedSet) == ReadyFrom(nodes, completedSet, 1)

(***************************************************************************)
(* IntentRecognizer._validate_dag: Kahn's algorithm over role ids.         *)
(***************************************************************************)
\* dict keys in insertion order: the role ids in order of first occurrence
RECURSIVE KeysInOrder(_, _)
KeysInOrder(nodes, i) ==
    IF i = 0 THEN <<>>
    ELSE LET before == KeysInOrder(nodes, i - 1)
         IN IF nodes[i].role_id \in Range(before) THEN before
            ELSE Append(before, nodes[i].role_id)

\* in_degree[rid]: one increment per (node, dep) with node.role_id = rid and
\* dep among the role ids of the list
InDegree(nodes) ==
    LET ids == Range(role_ids(nodes))
    IN [rid \in ids |->
          Cardinality({<<i, dep>> \in (DOMAIN nodes) \X ids :
                         nodes[i].role_id = rid /\ dep \in nodes[i].depends_on})]

\* graph[dep]: node.role_id appended for every node (in list order) that
\* lists dep
RECURSIVE GraphOf(_, _, _)
GraphOf(nodes, dep, i) ==
    IF i > Len(nodes) THEN <<>>
    ELSE IF dep \in nodes[i].depends_on
         THEN <<nodes[i].role_id>> \o GraphOf(nodes, dep, i + 1)
         ELSE GraphOf(nodes, dep, i + 1)

\* for neighbor in graph[current]: in_degree[neighbor] -= 1; append at zero
RECURSIVE Relax(_, _, _)
Relax(neighbors, in_degree, queue) ==
    IF neighbors = <<>> THEN [in_degree |-> in_degree, queue |-> queue]
    ELSE LET n == Head(neighbors)
             deg == in_degree[n] - 1
         IN Relax(Tail(neighbors),
                  [in_degree EXCEPT ![n] = deg],
                  IF deg = 0 THEN Append(queue, n) ELSE queue)

\* while queue: current = queue.pop(0); visited += 1; ...
RECURSIVE KahnLoop(_, _, _, _)
KahnLoop(nodes, queue, in_degree, visited) ==
    IF queue = <<>> THEN visited
    ELSE LET current == Head(queue)
             r == Relax(GraphOf(nodes, current, 1), in_degree, Tail(queue))
         IN KahnLoop(nodes, r.queue, r.in_degree, visited + 1)

validate_dag_always(nodes) == TRUE

validate_dag(nodes) ==
    LET in_degree == InDegree(nodes)
        queue == SelectSeq(KeysInOrder(nodes, Len(nodes)),
                           LAMBDA rid : in_degree[rid] = 0)
    IN KahnLoop(nodes, queue, in_degree, 0) = Len(nodes)

(***************************************************************************)
(* IntentRecognizer._parse_plan_response and plan_execution.               *)
(* A reply of the planning call is [kind, nodes, ...]:                     *)
(*   "llm_error"   the call raised LLMError                                *)
(*   "no_json"     the text holds no {...}                                 *)
(*   "bad_json"    json.loads fails                                        *)
(*   "wrong_shape" valid JSON whose nodes are not objects with a list      *)
(*   "json"        {"nodes": [{"role_id", "depends_on"}...], "reason"}     *)
(***************************************************************************)
ReplyKinds == {"llm_error", "no_json", "bad_json", "wrong_shape", "json"}

\* for node_data in nodes_data: keep the node if get_role(role_id), with
\* valid_depends = [d for d in depends_on if get_role(d)]
RECURSIVE ParseNodes(_)
ParseNodes(nodes_data) ==
    IF nodes_data = <<>> THEN <<>>
    ELSE LET nd == Head(nodes_data)
         IN IF get_role(nd.role_id)
            THEN <<ExecutionNode(nd.role_id,
                                 {d \in nd.depends_on : get_role(d)})>>
                 \o ParseNodes(Tail(nodes_data))
            ELSE ParseNodes(Tail(nodes_data))

ClearDepends(nodes) == [i \in DOMAIN nodes |-> ExecutionNode(nodes[i].role_id, {})]

\* as parse_plan_response, without the fallback of "if not nodes"
parse_plan_response_nofallback(content) ==
    IF content.kind \in {"no_json", "bad_json"}
    THEN DefaultPlan("parse_failed")
    ELSE LET nodes == ParseNodes(content.nodes)
         IN IF ~validate_dag(nodes)
            THEN ExecutionPlan(ClearDepends(nodes), "model_reason")
            ELSE ExecutionPlan(nodes, "model_reason")

parse_plan_response(content) ==
    IF content.kind \in {"no_json", "bad_json"}
    THEN DefaultPlan("parse_failed")
    ELSE LET nodes == ParseNodes(content.nodes)
         IN IF nodes = <<>> THEN DefaultPlan("empty_result")
            ELSE IF ~validate_dag(nodes)
                 THEN ExecutionPlan(ClearDepends(nodes), "model_reason")
                 ELSE ExecutionPlan(nodes, "model_reason")

plan_execution(input_empty, content) ==
    IF input_empty THEN DefaultPlan("empty_input")
    ELSE IF content.kind = "llm_error" THEN DefaultPlan("llm_failed")
    ELSE IF content.kind = "wrong_shape" THEN DefaultPlan("plan_failed")
    ELSE parse_plan_response(content)

(***************************************************************************)
(* The replies the modelled planning call may give.                        *)
(***************************************************************************)
RawNodes(ids) == [role_id : ids, depends_on : SUBSET ids]

SeqsUpTo(S, n) == UNION {[1..k -> S] : k \in 0..n}

JsonReplies(ids, n) == {[kind |-> "json", nodes |-> s] : s \in SeqsUpTo(RawNodes(ids), n)}

OtherReplies == {[kind |-> k, nodes |-> <<>>] : k \in ReplyKinds \ {"json"}}

\* replies of n nodes whose last node depends on a registered specialist
\* that no node of the reply names
AbsentDepReplies(ids, n) ==
    {[kind |-> "json",
      nodes |-> Append(s, [role_id |-> r, depends_on |-> AllRoleIds \ ids])] :
        s \in [1..(n - 1) -> [role_id : ids, depends_on : {{}}]], r \in ids}

(***************************************************************************)
(* Engine: bounds and data.                                                *)
(***************************************************************************)
\* text fragments one model response streams
MaxChunks == 2
\* tool calls the model requests in one turn (the code has no bound)
MaxToolCalls == 2
\* nodes of a plan run in discussion mode
MaxDiscNodes == 2

\* _process_discussion_mode: MAX_ROUNDS = 5
MAX_ROUNDS == 5

\* LLMError subclasses of app/llm/client.py: code and safe message
LLMErrors ==
    { [code |-> "1001", message |-> "timeout"],
      [code |-> "1002", message |-> "auth"],
      [code |-> "1003", message |-> "rate_limit"],
      [code |-> "1099", message |-> "unavailable"] }

\* the failure the modelled provider shows inside a node of the DAG
NodeErrors ==
    { [code |-> "1001", message |-> "timeout"] }

\* a response that requests tool calls carries no text or MaxChunks
\* fragments; a response that requests none carries MaxChunks fragments
TextLens(nc) == IF nc > 0 THEN {0, MaxChunks} ELSE {MaxChunks}

\* What can happen to one requested tool call (engine.py:717-739):
\*   ok            registered, arguments parse, execute returns
\*   foreign       as ok, for a tool outside the specialist's list
\*   bad_json      arguments are not JSON: {} is passed, validation raises
\*   non_object    arguments are JSON but no object: the call raises TypeError
\*   invalid_args  validate_params raises ValueError
\*   exec_raises   execute raises
\*   unknown_tool  tool_registry.get returns None
ToolCases ==
    {"ok", "foreign", "bad_json", "non_object", "invalid_args", "exec_raises",
     "unknown_tool"}

Msg(r, c) == [role |-> r, content |-> c]

\* a token of a text: every token has the same shape
Tok(w) == <<w, 0, 0, 0>>

UserText == <<Tok("q")>>

NoContext == [history |-> <<>>, role_results |-> <<>>, present |-> FALSE]

\* what an earlier turn of the session persisted
PriorContext ==
    [history |-> <<Msg("user", <<Tok("q0")>>), Msg("assistant", <<Tok("a0")>>)>>,
     role_results |-> <<[role |-> "policy_expert", content |-> <<Tok("stale")>>]>>,
     present |-> TRUE]

\* one event of the stream; rnd is the scheduling round it was emitted in
\* (0 outside the rounds)
Ev(t, r, c, tag, n) == [type |-> t, role |-> r, content |-> c, tag |-> tag, rnd |-> n]

\* the text of response n of node i: m fragments
Frags(i, n, m) == [k \in 1..m |-> <<"frag", i, n, k>>]

\* the number of fragments a "planning" notice keeps of the text it quotes
\* (the code keeps 100 characters)
NoticeLen == 1

\* text.strip()[:100] + "..." if len(text) > 100 else text.strip()
Truncated(text) ==
    IF Len(text) > NoticeLen
    THEN SubSeq(text, 1, NoticeLen) \o <<Tok("...")>>
    ELSE text

\* f"执行出错: {str(e)}"
ExecFailed(e) == <<Tok("exec_failed"), Tok(e.message)>>

(***************************************************************************)
(* ConversationContext.role_results: a dict, kept in insertion order.      *)
(***************************************************************************)
Keys(rr) == {rr[i].role : i \in DOMAIN rr}

SetResult(rr, role, content) ==
    IF role \in Keys(rr)
    THEN [i \in DOMAIN rr |->
            IF rr[i].role = role THEN [role |-> role, content |-> content] ELSE rr[i]]
    ELSE Append(rr, [role |-> role, content |-> content])

GetResult(rr, role) == (CHOOSE i \in DOMAIN rr : rr[i].role = role)

\* a prompt that renders no sibling result
RenderedRoles_none(rr) == {}

\* the sibling results _build_role_messages renders into a prompt
RenderedRoles(rr) == {r \in Keys(rr) : get_role(r)}

(***************************************************************************)
(* _load_context / _save_context                                           *)
(***************************************************************************)
\* a load that never finds the persisted context
load_context_fresh(store, hit) == NoContext

\* hit: redis is configured, holds the key and the read succeeds
load_context(store, hit) ==
    IF hit /\ store.present THEN store ELSE NoContext

\* _save_context without its except branch
save_context_raises(hist, rr, store, ok) ==
    [store |-> IF ok THEN [history |-> hist, role_results |-> rr, present |-> TRUE]
               ELSE store,
     raised |-> ~ok]

\* a save that appends to the history the store holds
save_context_merged(hist, rr, store, ok) ==
    [store |-> IF ok THEN [history |-> store.history \o hist, role_results |-> rr,
                           present |-> TRUE]
               ELSE store,
     raised |-> FALSE]

save_context(hist, rr, store, ok) ==
    [store |-> IF ok THEN [history |-> hist, role_results |-> rr, present |-> TRUE]
               ELSE store,
     raised |-> FALSE]

(***************************************************************************)
(* _process_dag_mode: the decisions of the scheduling loop.                *)
(***************************************************************************)
is_last_batch(completedSet, ready_nodes, total_nodes) ==
    Cardinality(completedSet) + Len(ready_nodes) = total_nodes

\* "live" (_execute_node), "silent" (_execute_node_silent) or "async"
\* (_execute_role_async under asyncio.gather)
NodeMode(ready_nodes, total_nodes, last) ==
    IF Len(ready_nodes) = 1
    THEN IF total_nodes > 1 /\ ~last THEN "silent" ELSE "live"
    ELSE "async"

\* the synthesis check that never asks for a synthesis
NeedsSynthesis_never(rr) == FALSE

\* len(role_results) > 1 and "purchase_consultant" not in role_results
NeedsSynthesis(rr) == Len(rr) > 1 /\ Synthesizer \notin Keys(rr)

\* context.role_results["purchase_consultant"] = summary
StoreSummary_skip(rr, summary) == rr

StoreSummary(rr, summary) == SetResult(rr, Synthesizer, summary)

\* the synthesizer's result, or list(role_results.values())[-1]
FinalResult(rr) ==
    IF Synthesizer \in Keys(rr) THEN rr[GetResult(rr, Synthesizer)].content
    ELSE rr[Len(rr)].content

AddFinalResult(hist, rr) ==
    IF rr # <<>> THEN Append(hist, Msg("assistant", FinalResult(rr))) ELSE hist

(***************************************************************************)
(* Per-node execution.                                                     *)
(***************************************************************************)
\* _execute_node relays content_delta, _execute_node_silent drops it
ForwardDelta_always(m) == TRUE

\* a node that relays no content_delta in any mode
ForwardDelta_never(m) == FALSE

ForwardDelta(m) == m = "live"

\* a handler that reports a result for every tool call
ToolReturns_always(c) == TRUE

\* the tool call's execution returned: a tool_result event is emitted
ToolReturns(c) == c \in {"ok", "foreign"}

\* json.dumps(result) or json.dumps({"error": ...})
ToolPayload(c) == IF ToolReturns(c) THEN "result" ELSE "error"

\* the try/except around tool.execute and the else of "if tool": nothing
\* a tool call does escapes the handler
ToolEscapes_exec(c) == c = "exec_raises"

ToolEscapes(c) == FALSE

\* except Exception of _execute_node / _execute_node_silent: the events
StartEvents(role, m, n) ==
    IF m = "silent"
    THEN <<Ev("thinking_step", role, <<>>, "role_dispatch", n)>>
    ELSE <<Ev("role_start", role, <<>>, "", n),
           Ev("thinking_step", role, <<>>, "role_dispatch", n)>>

CompletionEvents(role, m, text, n) ==
    IF m = "silent"
    THEN <<Ev("thinking_step", role, <<>>, "role_complete", n)>>
    ELSE <<Ev("role_result", role, text, "", n)>>

FailureEvents(role, m, e, n) ==
    IF m = "silent"
    THEN <<Ev("thinking_step", role, ExecFailed(e), "error", n)>>
    ELSE <<Ev("role_result", role, ExecFailed(e), "", n)>>

\* the except branches of the serial paths leave role_results alone
SerialFailureResults(rr, role, e) == rr

\* _execute_role_async: except Exception returns a RoleResult
AsyncFailureResult(e) ==
    [content |-> ExecFailed(e), success |-> FALSE, is_exception |-> FALSE]

\* completed.add(node.role_id) after the join's branch
JoinCompleted_success(completedSet, role, result) ==
    IF result.success THEN completedSet \cup {role} ELSE completedSet

JoinCompleted(completedSet, role, result) == completedSet \cup {role}

\* process: except LLMError yields the error's code and message
ErrorEvent_generic(e) == Ev("error", "", <<Tok("unavailable")>>, "1099", 0)

ErrorEvent(e) == Ev("error", "", <<Tok(e.message)>>, e.code, 0)

\* process: except Exception yields code 1099 and the fixed message
GenericErrorEvent == Ev("error", "", <<Tok("unavailable")>>, "1099", 0)

\* the generator ends after the error event
pc_after_error_saves == "save"

pc_after_error == "end"

NewTask(i, role, m, seen) ==
    [node |-> i, role |-> role, mode |-> m, st |-> "call", nresp |-> 0,
     pending |-> 0, text |-> <<>>, evs |-> <<>>, msgs |-> <<>>,
     ids |-> <<>>,
     seen |-> seen, failed |-> FALSE, cause |-> "none",
     raised |-> FALSE, content |-> <<>>]

\* the ids of the k tool calls of a node's response n
ToolCallIds(n, k) == [j \in 1..k |-> <<n, j>>]

\* the position of the last assistant message of a message list
LastAssistant(msgs) ==
    CHOOSE a \in DOMAIN msgs :
      msgs[a] = "assistant" /\ \A b \in DOMAIN msgs : b > a => msgs[b] # "assistant"

\* a handler that appends no tool message for a tool that does not exist
ToolMessage_unless_unknown(c, id) ==
    IF c = "unknown_tool" THEN <<>>
    ELSE <<[payload |-> ToolPayload(c), id |-> id]>>

\* messages.append({"role": "tool", "tool_call_id": tool_call_id,
\* "content": tool_result}): after the try/except and the else, for every
\* call
ToolMessage(c, id) == <<[payload |-> ToolPayload(c), id |-> id]>>

\* an exception a tool call would raise into the node
ToolError == [code |-> "1099", message |-> "tool_error"]

VARIABLES
    collector,     \* client: the StreamResultCollector of a streaming call
    added,         \* client: the chunks add_chunk was called with, in order
    failures,      \* client: the failed calls and the LLMError each raised
    stream,        \* client: the streaming call a role execution drains
    input_empty,   \* planner: user_input.strip() is empty
    reply,         \* planner: the planning call's reply
    plan,          \* the ExecutionPlan plan_execution returned
    pc,            \* position of the turn
    mode,          \* process(mode=...): "standard" or "discussion"
    stored,        \* the context store's value for the session
    history,       \* context.history
    role_results,  \* context.role_results
    completed,     \* _process_dag_mode: completed
    rnd,           \* number of the scheduling round
    tasks,         \* the node executions of the running round
    joinPos,       \* the join loop's position in zip(ready_nodes, results)
    events,        \* the events yielded to the caller
    toolCalls,     \* tool calls the model requested so far in the turn
    disc,          \* _process_discussion_mode: locals
    startLog,      \* history: <<node, round>> of every execution started
    endLog,        \* history: every execution finished
    firstDone,     \* history: the node of the round that completed first
    lastTool,      \* history: the tool call just processed, and its task
    calls,         \* history: every model call after planning
    fault,         \* history: the model-call error raised to process, or
                   \* the store error _save_context swallowed
    ready,         \* get_ready_nodes: the plan, the completed set and the
                   \* lists successive calls returned
    registry,      \* ToolRegistry._tools
    regOps,        \* history: the register and clear calls made so far
    execution,     \* a tool, the arguments of execute and its outcome
    session        \* the turns made on one session id, and their store calls

vars == <<input_empty, reply, plan, pc, mode, stored, history, role_results,
          completed, rnd, tasks, joinPos, events, toolCalls, disc, startLog,
          endLog, firstDone, calls, fault, lastTool, collector, added,
          failures, stream, ready, registry, regOps, execution, session>>

libVars == <<ready, registry, regOps, execution, session>>

clientVars == <<collector, added, failures, stream>>

turnVars == <<input_empty, reply, plan, pc>>

engineVars == <<mode, stored, history, role_results, completed, rnd, tasks,
                joinPos, events, toolCalls, disc, startLog, endLog, firstDone,
                calls, fault, lastTool>>

NoPlan == ExecutionPlan(<<>>, "none")

NoReply == [kind |-> "none", nodes |-> <<>>]

NoFault == [code |-> "none", message |-> "none", at |-> "none"]

NoTool == [case |-> "none", task |-> 0]

NoDisc == [idx |-> 0, round_num |-> 0, hist |-> <<>>, checks |-> 0,
           consensus |-> FALSE]

\* StreamResultCollector.__init__
NewCollector == [content |-> <<>>, tool_calls |-> <<>>, finish_reason |-> ""]

\* no role execution is draining a stream
NoStream == [st |-> "idle", call |-> 0, yielded |-> <<>>, got |-> 0]

\* no streaming call and no failed call is looked at
InitClientIdle ==
    /\ collector = NewCollector
    /\ added = <<>>
    /\ failures = <<>>
    /\ stream = NoStream

NoReady == [nodes |-> <<>>, completed |-> {}, results |-> <<>>,
            given |-> [nodes |-> <<>>, completed |-> {}]]

NoExecution == [parameters |-> <<>>, kwargs |-> <<>>, result |-> "none",
                error |-> "none", param |-> 0, computed |-> FALSE]

\* no turn of the session has started
NoSession == [turns |-> <<>>, log |-> <<>>]

\* no call of get_ready_nodes, of the registry or of a tool is looked at
InitLibIdle ==
    /\ ready = NoReady
    /\ registry = <<>>
    /\ regOps = <<>>
    /\ execution = NoExecution
    /\ session = NoSession

(***************************************************************************)
(* Spec: one turn of AgentEngine.process.                                  *)
(***************************************************************************)
\* the replies of the planning call in a turn; discussion mode ignores
\* depends_on (it iterates plan.roles), so its replies carry none
TurnReplies(m) ==
    IF m = "discussion"
    THEN {[kind |-> "json", nodes |-> s] :
            s \in SeqsUpTo([role_id : ReplyRoleIds, depends_on : {{}}], MaxDiscNodes)}
    ELSE JsonReplies(ReplyRoleIds, MaxNodes) \cup OtherReplies
             \cup AbsentDepReplies(ReplyRoleIds, MaxNodes)

\* the tool calls the model may request in a turn: MaxToolCalls, one fewer
\* in the turns with the most model calls (plans of MaxNodes nodes, and
\* discussions)
TurnToolCalls(m, p) ==
    IF m = "standard" /\ Len(p.nodes) < MaxNodes THEN MaxToolCalls
    ELSE MaxToolCalls - 1

TurnPlans(m) ==
    {plan_execution(FALSE, r) : r \in TurnReplies(m)}
        \cup {plan_execution(TRUE, NoReply)}

\* one model call: its purpose, the node and the number of the call in the
\* node's execution (or the discussion round), the sibling results its
\* prompt renders, and whether it returned
Call(purpose, role, node, n, seen, ok) ==
    [purpose |-> purpose, role |-> role, node |-> node, n |-> n, rnd |-> rnd,
     seen |-> seen, ok |-> ok]

Ended(t, failed, content) ==
    [node |-> t.node, role |-> t.role, rnd |-> rnd, mode |-> t.mode,
     failed |-> failed, cause |-> IF failed THEN t.cause ELSE "none",
     content |-> content, seen |-> t.seen]

\* process: if mode == "discussion" and len(plan.nodes) > 1
UseDiscussion(m, p) == m = "discussion" /\ Len(p.nodes) > 1

Init ==
    /\ input_empty = FALSE
    /\ reply = NoReply
    /\ plan = NoPlan
    /\ pc = "start"
    /\ mode \in {"standard", "discussion"}
    /\ stored \in {NoContext, PriorContext}
    /\ history = <<>>
    /\ role_results = <<>>
    /\ completed = {}
    /\ rnd = 0
    /\ tasks = <<>>
    /\ joinPos = 0
    /\ events = <<>>
    /\ toolCalls = 0
    /\ disc = NoDisc
    /\ startLog = <<>>
    /\ endLog = <<>>
    /\ firstDone = 0
    /\ calls = {}
    /\ lastTool = NoTool
    /\ fault = NoFault
    /\ InitClientIdle
    /\ InitLibIdle

\* process, up to the dispatch on the mode: _load_context, add_message,
\* the planning events, plan_execution; _process_dag_mode starts with
\* role_results.clear()
BeginWith(plans) ==
    /\ pc = "start"
    /\ \E hit \in BOOLEAN, p \in plans :
         LET ctx == load_context(stored, hit)
             discussion == UseDiscussion(mode, p)
         IN /\ plan' = p
            /\ history' = Append(ctx.history, Msg("user", UserText))
            /\ role_results' = IF discussion THEN ctx.role_results ELSE <<>>
            /\ events' = <<Ev("thinking_start", "", <<>>, "", 0),
                           Ev("thinking_step", "", <<>>, "planning", 0),
                           Ev("thinking_step", "",
                              [i \in DOMAIN p.nodes |-> Tok(p.nodes[i].role_id)],
                              "planning", 0)>>
            /\ pc' = IF discussion THEN "disc_init" ELSE "dag"
    /\ lastTool' = NoTool
    /\ UNCHANGED <<clientVars, libVars>>
    /\ UNCHANGED <<input_empty, reply, mode, stored, completed, rnd, tasks,
                   joinPos, toolCalls, disc, startLog, endLog, firstDone,
                   calls, fault>>

Begin == BeginWith(TurnPlans(mode))

\* the top of the while loop: get_ready_nodes, break, or start the round
Schedule ==
    /\ pc = "dag"
    /\ LET ready_nodes == get_ready_nodes(plan.nodes, completed)
           last == is_last_batch(completed, ready_nodes, Len(plan.nodes))
           m == NodeMode(ready_nodes, Len(plan.nodes), last)
           seen == RenderedRoles(role_results)
           starts == [k \in DOMAIN ready_nodes |->
                        StartEvents(plan.nodes[ready_nodes[k]].role_id, m, rnd + 1)]
       IN IF ready_nodes = <<>>
          THEN /\ pc' = "after_dag"
               /\ tasks' = <<>>
               /\ UNCHANGED <<rnd, events, startLog>>
          ELSE /\ pc' = "run"
               /\ rnd' = rnd + 1
               /\ tasks' = [k \in DOMAIN ready_nodes |->
                              NewTask(ready_nodes[k],
                                      plan.nodes[ready_nodes[k]].role_id, m, seen)]
               /\ events' = events \o Flatten(starts)
               /\ startLog' = startLog \o [k \in DOMAIN ready_nodes |->
                                             <<ready_nodes[k], rnd + 1>>]
    /\ joinPos' = 0
    /\ firstDone' = 0
    /\ lastTool' = NoTool
    /\ UNCHANGED <<clientVars, libVars>>
    /\ UNCHANGED <<input_empty, reply, plan, mode, stored, history, role_results,
                   completed, toolCalls, disc, endLog, calls, fault>>

\* a serial node is over: back to the top of the loop
FinishSerial(t, newEvents, rr, failed, content) ==
    /\ events' = events \o newEvents
    /\ role_results' = rr
    /\ completed' = completed \cup {t.role}
    /\ endLog' = Append(endLog, Ended(t, failed, content))
    /\ tasks' = <<>>
    /\ pc' = "dag"
    /\ UNCHANGED <<firstDone, fault>>

\* an exception leaves the node's execution: the except branch of
\* _execute_node / _execute_node_silent, of _execute_role_async, or (in
\* discussion mode, where nothing catches it) of process
TaskRaises(i, e, cause, pre) ==
    LET t == [tasks[i] EXCEPT !.cause = cause]
    IN CASE t.mode \in {"live", "silent"} ->
              FinishSerial(t, pre \o FailureEvents(t.role, t.mode, e, rnd),
                           SerialFailureResults(role_results, t.role, e),
                           TRUE, ExecFailed(e))
         [] t.mode = "async" ->
              /\ tasks' = [tasks EXCEPT ![i] =
                             [t EXCEPT !.st = "done", !.failed = TRUE,
                                       !.content = AsyncFailureResult(e).content,
                                       !.raised = AsyncFailureResult(e).is_exception,
                                       !.evs = <<>>]]
              /\ firstDone' = IF firstDone = 0 THEN tasks[i].node ELSE firstDone
              /\ UNCHANGED <<events, role_results, completed, endLog, pc, fault>>
         [] OTHER ->
              /\ events' = events \o
                     <<IF cause = "llm" THEN ErrorEvent(e) ELSE GenericErrorEvent>>
              /\ fault' = [code |-> e.code, message |-> e.message, at |-> "discussion"]
              /\ pc' = pc_after_error
              /\ tasks' = <<>>
              /\ UNCHANGED <<role_results, completed, endLog, firstDone>>

\* _execute_role_stream / _handle_tool_calls_stream: one streaming model
\* call of a serial node returns; its fragments are relayed or dropped,
\* then either the tool calls are taken up or the node completes
StreamRespond ==
    /\ pc = "run"
    /\ tasks[1].mode \in {"live", "silent"}
    /\ tasks[1].st = "call"
    /\ \E nc \in 0..(TurnToolCalls(mode, plan) - toolCalls), nf \in {0, MaxChunks} :
         /\ nf \in TextLens(nc)
         /\ LET t == tasks[1]
                text == Frags(t.node, t.nresp + 1, nf)
                deltas == [k \in 1..nf |->
                             Ev("content_delta", t.role, <<text[k]>>,
                                IF t.nresp = 0 THEN "" ELSE "after_tool", rnd)]
                relayed == IF ForwardDelta(t.mode) THEN deltas ELSE <<>>
            IN /\ calls' = calls \cup {Call("node", t.role, t.node, t.nresp + 1, t.seen, TRUE)}
               /\ IF nc > 0
                  THEN /\ tasks' = <<[t EXCEPT !.st = "tools", !.pending = nc,
                                               !.nresp = @ + 1, !.text = text,
                                               !.msgs = Append(@, "assistant"),
                                               !.ids = Append(@, ToolCallIds(t.nresp + 1, nc))]>>
                       /\ events' = events \o relayed
                       /\ toolCalls' = toolCalls + nc
                       /\ UNCHANGED <<role_results, completed, endLog, pc,
                                      firstDone, fault>>
                  ELSE /\ FinishSerial(t,
                              relayed \o CompletionEvents(t.role, t.mode, text, rnd),
                              SetResult(role_results, t.role, text), FALSE, text)
                       /\ UNCHANGED toolCalls
    /\ lastTool' = NoTool
    /\ UNCHANGED <<clientVars, libVars>>
    /\ UNCHANGED <<input_empty, reply, plan, mode, stored, history, rnd, joinPos,
                   disc, startLog>>

\* the streaming call of a serial node raises LLMError
StreamFail ==
    /\ pc = "run"
    /\ tasks[1].mode \in {"live", "silent"}
    /\ tasks[1].st = "call"
    /\ \E e \in NodeErrors :
         /\ calls' = calls \cup {Call("node", tasks[1].role, tasks[1].node,
                                        tasks[1].nresp + 1, tasks[1].seen, FALSE)}
         /\ TaskRaises(1, e, "llm", <<>>)
    /\ lastTool' = NoTool
    /\ UNCHANGED <<clientVars, libVars>>
    /\ UNCHANGED <<input_empty, reply, plan, mode, stored, history, rnd, joinPos,
                   toolCalls, disc, startLog>>

\* _handle_tool_calls_stream / _handle_tool_calls: one iteration of
\* "for tool_call in tool_calls"
ToolStep(i) ==
    /\ pc \in {"run", "disc_init"}
    /\ i \in DOMAIN tasks
    /\ tasks[i].st = "tools"
    /\ \E c \in ToolCases :
         LET t == tasks[i]
             called == <<Ev("tool_call", t.role, <<>>, "", rnd)>>
             returned == IF ToolReturns(c)
                         THEN <<Ev("tool_result", t.role, <<>>, "", rnd)>>
                         ELSE <<>>
             asked == t.ids[LastAssistant(t.msgs)]
             tm == ToolMessage(c, asked[Len(asked) - t.pending + 1])
             t2 == [t EXCEPT !.pending = @ - 1,
                             !.st = IF t.pending = 1 THEN "call" ELSE "tools",
                             !.msgs = @ \o [k \in DOMAIN tm |-> tm[k].payload],
                             !.ids = @ \o [k \in DOMAIN tm |-> <<tm[k].id>>]]
         IN /\ lastTool' = [case |-> c, task |-> i]
            /\ UNCHANGED <<clientVars, libVars>>
            /\ IF ToolEscapes(c)
               THEN TaskRaises(i, ToolError, "tool",
                               IF t.mode \in {"live", "silent"} THEN called ELSE <<>>)
               ELSE /\ events' = IF t.mode \in {"live", "silent"}
                                  THEN events \o called \o returned
                                  ELSE events
                    /\ tasks' = [tasks EXCEPT ![i] =
                                   IF t.mode = "async"
                                   THEN [t2 EXCEPT !.evs = @ \o called \o returned]
                                   ELSE t2]
                    /\ UNCHANGED <<role_results, completed, endLog, pc, firstDone,
                                   fault>>
    /\ UNCHANGED <<input_empty, reply, plan, mode, stored, history, rnd, joinPos,
                   toolCalls, disc, startLog, calls>>

\* _execute_role / _handle_tool_calls under gather: one one-shot model call
\* of a task of the round returns
AsyncRespond(i) ==
    /\ pc = "run"
    /\ i \in DOMAIN tasks
    /\ tasks[i].mode = "async"
    /\ tasks[i].st = "call"
    /\ \E nc \in 0..(TurnToolCalls(mode, plan) - toolCalls), nf \in {0, MaxChunks} :
         /\ nf \in TextLens(nc)
         /\ LET t == tasks[i]
                text == Frags(t.node, t.nresp + 1, nf)
                notice == IF nf > 0
                          THEN <<Ev("thinking_step", t.role, Truncated(text), "planning", rnd)>>
                          ELSE <<>>
            IN /\ calls' = calls \cup {Call("node", t.role, t.node, t.nresp + 1, t.seen, TRUE)}
               /\ IF nc > 0
                  THEN /\ tasks' = [tasks EXCEPT ![i] =
                                      [t EXCEPT !.st = "tools", !.pending = nc,
                                                !.nresp = @ + 1, !.text = text,
                                                !.msgs = Append(@, "assistant"),
                                                !.ids = Append(@, ToolCallIds(t.nresp + 1, nc)),
                                                !.evs = @ \o notice]]
                       /\ toolCalls' = toolCalls + nc
                       /\ UNCHANGED firstDone
                  ELSE /\ tasks' = [tasks EXCEPT ![i] =
                                      [t EXCEPT !.st = "done", !.nresp = @ + 1,
                                                !.text = text, !.content = text]]
                       /\ firstDone' = IF firstDone = 0 THEN tasks[i].node ELSE firstDone
                       /\ UNCHANGED toolCalls
    /\ lastTool' = NoTool
    /\ UNCHANGED <<clientVars, libVars>>
    /\ UNCHANGED <<input_empty, reply, plan, pc, mode, stored, history,
                   role_results, completed, rnd, joinPos, events, disc, startLog,
                   endLog, fault>>

\* the one-shot call of a task of the round raises LLMError
AsyncFail(i) ==
    /\ pc = "run"
    /\ i \in DOMAIN tasks
    /\ tasks[i].mode = "async"
    /\ tasks[i].st = "call"
    /\ \E e \in NodeErrors :
         /\ calls' = calls \cup {Call("node", tasks[i].role, tasks[i].node,
                                        tasks[i].nresp + 1, tasks[i].seen, FALSE)}
         /\ TaskRaises(i, e, "llm", <<>>)
    /\ lastTool' = NoTool
    /\ UNCHANGED <<clientVars, libVars>>
    /\ UNCHANGED <<input_empty, reply, plan, mode, stored, history, rnd, joinPos,
                   toolCalls, disc, startLog>>

\* a join loop over reversed(list(zip(ready_nodes, results)))
NextJoined_reversed(ts, pos) == Len(ts) - pos

\* zip(ready_nodes, results): gather returns the results in the order of
\* the tasks it was given, whatever the order they finished in
NextJoined(ts, pos) == pos + 1

\* after asyncio.gather: one iteration of "for node, result in zip(...)"
JoinStep ==
    /\ pc = "run"
    /\ tasks[1].mode = "async"
    /\ \A k \in DOMAIN tasks : tasks[k].st = "done"
    /\ LET i == NextJoined(tasks, joinPos)
           t == tasks[i]
           result == [content |-> t.content, success |-> ~t.failed,
                      is_exception |-> t.raised]
       IN /\ IF result.is_exception
             THEN /\ events' = Append(events,
                                  Ev("role_result", t.role, t.content, "", rnd))
                  /\ UNCHANGED role_results
             ELSE /\ role_results' = SetResult(role_results, t.role, t.content)
                  /\ events' = events \o t.evs \o
                                 <<Ev("role_result", t.role, t.content, "", rnd)>>
          /\ completed' = JoinCompleted(completed, t.role, result)
          /\ endLog' = Append(endLog, Ended(t, t.failed, t.content))
          /\ joinPos' = joinPos + 1
          /\ pc' = IF joinPos + 1 = Len(tasks) THEN "dag" ELSE "run"
    /\ lastTool' = NoTool
    /\ UNCHANGED <<clientVars, libVars>>
    /\ UNCHANGED <<input_empty, reply, plan, mode, stored, history, rnd, tasks,
                   toolCalls, disc, startLog, firstDone, calls, fault>>

\* after the loop: the synthesis check; without synthesis the final result
\* is appended to the history
AfterDag ==
    /\ pc = "after_dag"
    /\ IF NeedsSynthesis(role_results)
       THEN /\ events' = events \o
                   <<Ev("thinking_step", "", <<>>, "synthesizing", 0),
                     Ev("role_start", Synthesizer, <<>>, "summary", 0)>>
            /\ pc' = "synth"
            /\ UNCHANGED history
       ELSE /\ history' = AddFinalResult(history, role_results)
            /\ pc' = "save"
            /\ UNCHANGED events
    /\ lastTool' = NoTool
    /\ UNCHANGED <<clientVars, libVars>>
    /\ UNCHANGED <<input_empty, reply, plan, mode, stored, role_results, completed,
                   rnd, tasks, joinPos, toolCalls, disc, startLog, endLog,
                   firstDone, calls, fault>>

\* _synthesize_results streams the summary; it becomes the synthesizer's
\* result and the assistant message
SynthRespond ==
    /\ pc = "synth"
    /\ \E nf \in TextLens(0) :
         LET text == Frags(0, 1, nf)
             deltas == [k \in 1..nf |->
                          Ev("content_delta", Synthesizer, <<text[k]>>, "", 0)]
             rr == StoreSummary(role_results, text)
         IN /\ events' = events \o deltas \o
                           <<Ev("role_result", Synthesizer, text, "summary", 0)>>
            /\ role_results' = rr
            /\ history' = AddFinalResult(history, rr)
    /\ calls' = calls \cup {Call("synth", Synthesizer, 0, 1,
                                   RenderedRoles(role_results), TRUE)}
    /\ pc' = "save"
    /\ lastTool' = NoTool
    /\ UNCHANGED <<clientVars, libVars>>
    /\ UNCHANGED <<input_empty, reply, plan, mode, stored, completed, rnd, tasks,
                   joinPos, toolCalls, disc, startLog, endLog, firstDone, fault>>

\* the synthesis stream raises LLMError, possibly after some fragments:
\* process yields the error event
SynthFail ==
    /\ pc = "synth"
    /\ \E e \in LLMErrors, nf \in {0, MaxChunks - 1} :
         LET text == Frags(0, 1, nf)
             deltas == [k \in 1..nf |->
                          Ev("content_delta", Synthesizer, <<text[k]>>, "", 0)]
         IN /\ events' = events \o deltas \o <<ErrorEvent(e)>>
            /\ fault' = [code |-> e.code, message |-> e.message, at |-> "synth"]
    /\ calls' = calls \cup {Call("synth", Synthesizer, 0, 1,
                                   RenderedRoles(role_results), FALSE)}
    /\ pc' = pc_after_error
    /\ lastTool' = NoTool
    /\ UNCHANGED <<clientVars, libVars>>
    /\ UNCHANGED <<input_empty, reply, plan, mode, stored, history, role_results,
                   completed, rnd, tasks, joinPos, toolCalls, disc, startLog,
                   endLog, firstDone>>

\* _save_context, then the done event
Save ==
    /\ pc = "save"
    /\ \E ok \in BOOLEAN :
         LET r == save_context(history, role_results, stored, ok)
         IN /\ stored' = r.store
            /\ events' = Append(events,
                                IF r.raised THEN GenericErrorEvent
                                ELSE Ev("done", "", <<>>, "", 0))
            /\ fault' = IF ok THEN fault
                         ELSE [code |-> "store", message |-> "swallowed",
                               at |-> "save"]
    /\ pc' = "end"
    /\ lastTool' = NoTool
    /\ UNCHANGED <<clientVars, libVars>>
    /\ UNCHANGED <<input_empty, reply, plan, mode, history, role_results,
                   completed, rnd, tasks, joinPos, toolCalls, disc, startLog,
                   endLog, firstDone, calls>>

(***************************************************************************)
(* _process_discussion_mode                                                *)
(***************************************************************************)
\* "for role in plan.roles": role_start, then _execute_role
DiscStart ==
    /\ pc = "disc_init"
    /\ tasks = <<>>
    /\ LET i == disc.idx + 1
           role == plan.nodes[i].role_id
       IN /\ events' = Append(events, Ev("role_start", role, <<>>, "", 0))
          /\ tasks' = <<NewTask(i, role, "oneshot", RenderedRoles(role_results))>>
    /\ lastTool' = NoTool
    /\ UNCHANGED <<clientVars, libVars>>
    /\ UNCHANGED <<input_empty, reply, plan, pc, mode, stored, history,
                   role_results, completed, rnd, joinPos, toolCalls, disc,
                   startLog, endLog, firstDone, calls, fault>>

\* a one-shot call of the specialist's first analysis returns
OneshotRespond ==
    /\ pc = "disc_init"
    /\ tasks # <<>>
    /\ tasks[1].st = "call"
    /\ \E nc \in 0..(TurnToolCalls(mode, plan) - toolCalls), nf \in {0, MaxChunks} :
         /\ nf \in TextLens(nc)
         /\ LET t == tasks[1]
                text == Frags(t.node, t.nresp + 1, nf)
            IN /\ calls' = calls \cup {Call("initial", t.role, t.node, t.nresp + 1, t.seen, TRUE)}
               /\ IF nc > 0
                  THEN /\ tasks' = <<[t EXCEPT !.st = "tools", !.pending = nc,
                                               !.nresp = @ + 1, !.text = text,
                                               !.msgs = Append(@, "assistant"),
                                               !.ids = Append(@, ToolCallIds(t.nresp + 1, nc))]>>
                       /\ toolCalls' = toolCalls + nc
                       /\ UNCHANGED <<role_results, disc, events, pc>>
                  ELSE /\ role_results' = SetResult(role_results, t.role, text)
                       /\ disc' = [disc EXCEPT
                                     !.idx = @ + 1,
                                     !.round_num = 1,
                                     !.hist = Append(@, [role |-> t.role,
                                                         content |-> text])]
                       /\ events' = Append(events,
                                           Ev("role_result", t.role, text, "", 0))
                       /\ tasks' = <<>>
                       /\ pc' = IF t.node = Len(plan.nodes) THEN "disc_check"
                                ELSE "disc_init"
                       /\ UNCHANGED toolCalls
    /\ lastTool' = NoTool
    /\ UNCHANGED <<clientVars, libVars>>
    /\ UNCHANGED <<input_empty, reply, plan, mode, stored, history, completed, rnd,
                   joinPos, startLog, endLog, firstDone, fault>>

\* a one-shot call of the first analysis raises LLMError: nothing in
\* _process_discussion_mode catches it
OneshotFail ==
    /\ pc = "disc_init"
    /\ tasks # <<>>
    /\ tasks[1].st = "call"
    /\ \E e \in LLMErrors :
         /\ calls' = calls \cup {Call("initial", tasks[1].role, tasks[1].node,
                                        tasks[1].nresp + 1, tasks[1].seen, FALSE)}
         /\ TaskRaises(1, e, "llm", <<>>)
    /\ lastTool' = NoTool
    /\ UNCHANGED <<clientVars, libVars>>
    /\ UNCHANGED <<input_empty, reply, plan, mode, stored, history, rnd, joinPos,
                   toolCalls, disc, startLog>>

\* the error event of a failed discussion step
DiscussionRaises(e, purpose, pre) ==
    /\ events' = events \o pre \o <<ErrorEvent(e)>>
    /\ fault' = [code |-> e.code, message |-> e.message, at |-> "discussion"]
    /\ calls' = calls \cup {Call(purpose, "", disc.idx, disc.round_num, {}, FALSE)}
    /\ pc' = pc_after_error

\* "for round_num in range(1, MAX_ROUNDS)": _check_consensus
ConsensusCheck ==
    /\ pc = "disc_check"
    /\ IF Len(disc.hist) < 2
       THEN /\ pc' = "disc_gen"
            /\ disc' = [disc EXCEPT !.idx = 0]
            /\ UNCHANGED calls
       ELSE \E consensus \in BOOLEAN :
              /\ calls' = calls \cup {Call("consensus", "", 0, disc.round_num, {}, TRUE)}
              /\ pc' = IF consensus THEN "disc_sum" ELSE "disc_gen"
              /\ disc' = [disc EXCEPT !.idx = 0, !.checks = @ + 1,
                                      !.consensus = consensus]
    /\ lastTool' = NoTool
    /\ UNCHANGED <<clientVars, libVars>>
    /\ UNCHANGED <<input_empty, reply, plan, mode, stored, history, role_results,
                   completed, rnd, tasks, joinPos, events, toolCalls, startLog,
                   endLog, firstDone, fault>>

ConsensusFail ==
    /\ pc = "disc_check"
    /\ Len(disc.hist) >= 2
    /\ \E e \in LLMErrors : DiscussionRaises(e, "consensus", <<>>)
    /\ lastTool' = NoTool
    /\ UNCHANGED <<clientVars, libVars>>
    /\ UNCHANGED <<input_empty, reply, plan, mode, stored, history, role_results,
                   completed, rnd, tasks, joinPos, toolCalls, disc, startLog,
                   endLog, firstDone>>

\* a loop "for round_num in range(1, MAX_ROUNDS + 1)": one round more
AfterSupplement_inclusive(d) ==
    IF d.idx < Len(plan.nodes) THEN [pc |-> "disc_gen", disc |-> d]
    ELSE IF d.round_num + 1 < MAX_ROUNDS + 1
         THEN [pc |-> "disc_check", disc |-> [d EXCEPT !.round_num = @ + 1]]
         ELSE [pc |-> "disc_sum", disc |-> d]

\* after the last role of a round: the next round, or the summary
AfterSupplement(d) ==
    IF d.idx < Len(plan.nodes) THEN [pc |-> "disc_gen", disc |-> d]
    ELSE IF d.round_num + 1 < MAX_ROUNDS
         THEN [pc |-> "disc_check", disc |-> [d EXCEPT !.round_num = @ + 1]]
         ELSE [pc |-> "disc_sum", disc |-> d]

\* "for role in plan.roles": _generate_discussion; "无补充" adds nothing
Supplement ==
    /\ pc = "disc_gen"
    /\ \E adds \in BOOLEAN :
         LET i == disc.idx + 1
             role == plan.nodes[i].role_id
             text == <<<<"supp", i, disc.round_num, 1>>>>
             d == [disc EXCEPT !.idx = i,
                               !.hist = IF adds
                                        THEN Append(@, [role |-> role,
                                                        content |-> text])
                                        ELSE @]
             nxt == AfterSupplement(d)
         IN /\ events' = IF adds
                         THEN Append(events, Ev("discussion", role, text, "", 0))
                         ELSE events
            /\ disc' = nxt.disc
            /\ pc' = nxt.pc
            /\ calls' = calls \cup {Call("supplement", role, i, disc.round_num, {}, TRUE)}
    /\ lastTool' = NoTool
    /\ UNCHANGED <<clientVars, libVars>>
    /\ UNCHANGED <<input_empty, reply, plan, mode, stored, history, role_results,
                   completed, rnd, tasks, joinPos, toolCalls, startLog, endLog,
                   firstDone, fault>>

SupplementFail ==
    /\ pc = "disc_gen"
    /\ \E e \in LLMErrors : DiscussionRaises(e, "supplement", <<>>)
    /\ lastTool' = NoTool
    /\ UNCHANGED <<clientVars, libVars>>
    /\ UNCHANGED <<input_empty, reply, plan, mode, stored, history, role_results,
                   completed, rnd, tasks, joinPos, toolCalls, disc, startLog,
                   endLog, firstDone>>

\* the synthesizer's role_start, _summarize_discussion, role_result,
\* add_message
Summarize ==
    /\ pc = "disc_sum"
    /\ LET summary == <<Tok("summary")>>
       IN /\ events' = events \o
                         <<Ev("role_start", Synthesizer, <<>>, "", 0),
                           Ev("role_result", Synthesizer, summary, "", 0)>>
          /\ history' = Append(history, Msg("assistant", summary))
    /\ calls' = calls \cup {Call("summary", Synthesizer, 0, disc.round_num, {}, TRUE)}
    /\ pc' = "save"
    /\ lastTool' = NoTool
    /\ UNCHANGED <<clientVars, libVars>>
    /\ UNCHANGED <<input_empty, reply, plan, mode, stored, role_results, completed,
                   rnd, tasks, joinPos, toolCalls, disc, startLog, endLog,
                   firstDone, fault>>

SummarizeFail ==
    /\ pc = "disc_sum"
    /\ \E e \in LLMErrors :
         DiscussionRaises(e, "summary",
                          <<Ev("role_start", Synthesizer, <<>>, "", 0)>>)
    /\ lastTool' = NoTool
    /\ UNCHANGED <<clientVars, libVars>>
    /\ UNCHANGED <<input_empty, reply, plan, mode, stored, history, role_results,
                   completed, rnd, tasks, joinPos, toolCalls, disc, startLog,
                   endLog, firstDone>>

Next ==
    \/ Begin
    \/ Schedule
    \/ StreamRespond
    \/ StreamFail
    \/ \E i \in 1..MaxNodes : ToolStep(i)
    \/ \E i \in 1..MaxNodes : AsyncRespond(i)
    \/ \E i \in 1..MaxNodes : AsyncFail(i)
    \/ JoinStep
    \/ AfterDag
    \/ SynthRespond
    \/ SynthFail
    \/ Save
    \/ DiscStart
    \/ OneshotRespond
    \/ OneshotFail
    \/ ConsensusCheck
    \/ ConsensusFail
    \/ Supplement
    \/ SupplementFail
    \/ Summarize
    \/ SummarizeFail

Spec == Init /\ [][Next]_vars

(***************************************************************************)
(* SpecUnbounded: the turns over a plan of one node, with a provider that  *)
(* may go on requesting tools.  _handle_tool_calls_stream and              *)
(* _handle_tool_calls call themselves whenever the next response requests  *)
(* tools again; nothing counts the depth.  The rounds beyond the budget of *)
(* Spec are not recorded in the history variables, which keeps the state   *)
(* space finite.                                                           *)
(***************************************************************************)
\* the plans of one node the Planner returns
SinglePlans == {p \in TurnPlans("standard") : Len(p.nodes) = 1}

\* process, when the Planner returns a plan of one node
BeginSingle == BeginWith(SinglePlans)

\* a further response of task i requests a tool call again
RespondBeyond(i) ==
    /\ pc = "run"
    /\ i \in DOMAIN tasks
    /\ tasks[i].st = "call"
    /\ toolCalls = TurnToolCalls(mode, plan)
    /\ tasks' = [tasks EXCEPT ![i] = [@ EXCEPT !.st = "more"]]
    /\ lastTool' = NoTool
    /\ UNCHANGED <<clientVars, libVars>>
    /\ UNCHANGED <<input_empty, reply, plan, pc, mode, stored, history,
                   role_results, completed, rnd, joinPos, events, toolCalls,
                   disc, startLog, endLog, firstDone, calls, fault>>

\* the requested tool call returns and the handler calls itself: the next
\* model call is made
ToolsBeyond(i) ==
    /\ pc = "run"
    /\ i \in DOMAIN tasks
    /\ tasks[i].st = "more"
    /\ tasks' = [tasks EXCEPT ![i] = [@ EXCEPT !.st = "call"]]
    /\ lastTool' = [case |-> "beyond", task |-> i]
    /\ UNCHANGED <<clientVars, libVars>>
    /\ UNCHANGED <<input_empty, reply, plan, pc, mode, stored, history,
                   role_results, completed, rnd, joinPos, events, toolCalls,
                   disc, startLog, endLog, firstDone, calls, fault>>

NextUnbounded ==
    \/ BeginSingle
    \/ Schedule
    \/ StreamRespond
    \/ StreamFail
    \/ \E i \in 1..MaxNodes : ToolStep(i)
    \/ AfterDag
    \/ Save
    \/ \E i \in 1..MaxNodes : RespondBeyond(i)
    \/ \E i \in 1..MaxNodes : ToolsBeyond(i)

\* every model call returns, with some response or with an error
ModelCallReturns ==
    \/ StreamRespond
    \/ StreamFail
    \/ \E i \in 1..MaxNodes : RespondBeyond(i)

\* every tool call returns
ToolCallReturns ==
    \/ \E i \in 1..MaxNodes : ToolStep(i)
    \/ \E i \in 1..MaxNodes : ToolsBeyond(i)

\* every model call and every tool call returns, and between the calls the
\* coroutine of the turn runs on
SpecUnbounded ==
    /\ Init
    /\ [][NextUnbounded]_vars
    /\ WF_vars(ModelCallReturns)
    /\ WF_vars(ToolCallReturns)
    /\ WF_vars(Schedule)
    /\ WF_vars(AfterDag)
    /\ WF_vars(Save)

(***************************************************************************)
(* SpecPlan: the Planner alone, over every bounded reply.                  *)
(***************************************************************************)
InitEngineIdle ==
    /\ mode = "standard"
    /\ stored = NoContext
    /\ history = <<>>
    /\ role_results = <<>>
    /\ completed = {}
    /\ rnd = 0
    /\ tasks = <<>>
    /\ joinPos = 0
    /\ events = <<>>
    /\ toolCalls = 0
    /\ disc = NoDisc
    /\ startLog = <<>>
    /\ endLog = <<>>
    /\ firstDone = 0
    /\ calls = {}
    /\ lastTool = NoTool
    /\ fault = NoFault

\* a node of a planner reply: any id as role_id; as depends_on any set of
\* registered ids, or the unknown id alone
PlannerNodes ==
    [role_id : ReplyRoleIds \cup {UnknownId},
     depends_on : (SUBSET ReplyRoleIds) \cup {{UnknownId}}]

\* an empty input makes no planning call; otherwise the call fails, or
\* replies with text that is no plan, or with up to MaxNodes nodes
InitPlan ==
    /\ \/ /\ input_empty = TRUE
          /\ reply = NoReply
       \/ /\ input_empty = FALSE
          /\ \/ reply \in OtherReplies
             \/ \E k \in 0..MaxNodes :
                  \E s \in [1..k -> PlannerNodes] :
                      reply = [kind |-> "json", nodes |-> s]
    /\ plan = NoPlan
    /\ pc = "planning"
    /\ InitEngineIdle
    /\ InitClientIdle
    /\ InitLibIdle

PlanStep ==
    /\ pc = "planning"
    /\ plan' = plan_execution(input_empty, reply)
    /\ pc' = "planned"
    /\ UNCHANGED <<input_empty, reply>>
    /\ UNCHANGED engineVars
    /\ UNCHANGED <<clientVars, libVars>>

NextPlan ==
    \/ PlanStep

SpecPlan == InitPlan /\ [][NextPlan]_vars

(***************************************************************************)
(* SpecCollector: StreamResultCollector over every bounded chunk sequence. *)
(***************************************************************************)
\* the number of chunks added to one collector
MaxAdds == 2

\* the number of tool-call deltas of one chunk
MaxDeltas == 2

\* a delta without an "index" key
NoIndex == -1

\* tc.get("index", 0)
IndexOf(tc) == IF tc.index = NoIndex THEN 0 ELSE tc.index

\* id and function name of a delta: both present, or both absent (read as "")
CallHeads ==
    { [id |-> "call_a", name |-> "tool_a"],
      [id |-> "", name |-> ""] }

\* the arguments fragment of a delta: absent, or one of two fragments
ArgParts ==
    { [has_args |-> FALSE, arguments |-> <<>>],
      [has_args |-> TRUE, arguments |-> <<"x">>],
      [has_args |-> TRUE, arguments |-> <<"y">>] }

\* the tool-call deltas of a streamed chunk
Deltas ==
    { [index |-> i, id |-> h.id, name |-> h.name, has_args |-> a.has_args,
       arguments |-> a.arguments] :
         i \in {NoIndex, 0, 1}, h \in CallHeads, a \in ArgParts }

\* content and finish_reason of a StreamChunk
ChunkShapes ==
    { [content |-> <<>>, finish_reason |-> ""],
      [content |-> <<"text">>, finish_reason |-> ""],
      [content |-> <<>>, finish_reason |-> "stop"] }

StreamChunk(content, tool_calls, finish_reason) ==
    [content |-> content, tool_calls |-> tool_calls,
     finish_reason |-> finish_reason]

\* add_chunk, the body of "for tc in chunk.tool_calls" with a later delta
\* replacing the record of its index
MergeDelta_overwrite(tcs, tc) ==
    LET index == IndexOf(tc)
        fresh == [index |-> index, id |-> tc.id, name |-> tc.name,
                  arguments |-> tc.arguments]
        at == {k \in DOMAIN tcs : tcs[k].index = index}
    IN IF at = {} THEN Append(tcs, fresh)
       ELSE [k \in DOMAIN tcs |-> IF k \in at THEN fresh ELSE tcs[k]]

\* add_chunk, the body of "for tc in chunk.tool_calls": the dict keeps its
\* keys in insertion order; the first delta of an index creates the record,
\* a later one appends its arguments when it has some
MergeDelta(tcs, tc) ==
    LET index == IndexOf(tc)
        at == {k \in DOMAIN tcs : tcs[k].index = index}
    IN IF at = {}
       THEN Append(tcs, [index |-> index, id |-> tc.id, name |-> tc.name,
                         arguments |-> tc.arguments])
       ELSE IF tc.has_args
            THEN [k \in DOMAIN tcs |->
                    IF k \in at
                    THEN [tcs[k] EXCEPT !.arguments = @ \o tc.arguments]
                    ELSE tcs[k]]
            ELSE tcs

RECURSIVE MergeAll(_, _)
MergeAll(tcs, deltas) ==
    IF deltas = <<>> THEN tcs
    ELSE MergeAll(MergeDelta(tcs, Head(deltas)), Tail(deltas))

\* StreamResultCollector.add_chunk
add_chunk(c, chunk) ==
    [content |-> c.content \o chunk.content,
     tool_calls |-> MergeAll(c.tool_calls, chunk.tool_calls),
     finish_reason |-> IF chunk.finish_reason # "" THEN chunk.finish_reason
                       ELSE c.finish_reason]

\* StreamResultCollector.get_result: list(self.tool_calls.values())
get_result(c) ==
    [content |-> c.content,
     tool_calls |-> [k \in DOMAIN c.tool_calls |->
                       [id |-> c.tool_calls[k].id,
                        name |-> c.tool_calls[k].name,
                        arguments |-> c.tool_calls[k].arguments]],
     finish_reason |-> c.finish_reason]

InitCollector ==
    /\ input_empty = FALSE
    /\ reply = NoReply
    /\ plan = NoPlan
    /\ pc = "collecting"
    /\ InitEngineIdle
    /\ InitClientIdle
    /\ InitLibIdle

\* content_generator: collector.add_chunk(chunk) for the next chunk of the
\* stream
AddChunk ==
    /\ pc = "collecting"
    /\ Len(added) < MaxAdds
    /\ \E sh \in ChunkShapes, k \in 0..MaxDeltas :
         \E tcs \in [1..k -> Deltas] :
            LET chunk == StreamChunk(sh.content, tcs, sh.finish_reason)
            IN /\ collector' = add_chunk(collector, chunk)
               /\ added' = Append(added, chunk)
    /\ UNCHANGED <<failures, stream, turnVars>>
    /\ UNCHANGED engineVars
    /\ UNCHANGED libVars

NextCollector ==
    \/ AddChunk

SpecCollector == InitCollector /\ [][NextCollector]_vars

(***************************************************************************)
(* SpecClient: the errors DeepSeekClient raises, over bounded failures.     *)
(***************************************************************************)
\* the failed calls looked at together
MaxCalls == 2

\* f"HTTP {response.status_code}"
StatusText(status) ==
    CASE status = 400 -> "HTTP 400"
      [] status = 404 -> "HTTP 404"
      [] OTHER -> "HTTP"

LLMError(code, template, detail) ==
    [code |-> code, message |-> <<template, detail>>]

\* no exception is raised
NoError == LLMError("none", "", "")

\* What makes a call fail: the transport times out or cannot connect, the
\* provider answers with a status other than 200 and some body (JSON with
\* an error message, JSON without one, or no JSON), a 200 response has a
\* payload that is no JSON, or another exception with some text is raised.
ClientFailures ==
    LET status == {[kind |-> "status", status |-> st, body |-> b, text |-> ""] :
                     st \in {401, 429, 500, 400, 404},
                     b \in {"msg_a", "msg_b", "no_message", "not_json"}}
        thrown == {[kind |-> k, status |-> IF k = "malformed" THEN 200 ELSE 0,
                    body |-> IF k = "malformed" THEN "not_json" ELSE "",
                    text |-> t] :
                     k \in {"malformed", "other"}, t \in {"exc_a", "exc_b"}}
    IN {[stream |-> st, kind |-> f.kind, status |-> f.status, body |-> f.body,
         text |-> f.text] :
          st \in BOOLEAN,
          f \in {[kind |-> "timeout", status |-> 0, body |-> "", text |-> ""],
                 [kind |-> "connect", status |-> 0, body |-> "", text |-> ""]}
                  \cup status \cup thrown}

\* DeepSeekClient._check_response_status
check_response_status(f) ==
    IF f.status = 401 THEN LLMError("1002", "auth", "")
    ELSE IF f.status = 429 THEN LLMError("1003", "rate_limit", "")
    ELSE IF f.status >= 500 THEN LLMError("1099", "provider_unavailable_retry", "")
    ELSE IF f.status # 200
         THEN LLMError("1099", "api_failed",
                       IF f.body = "not_json" THEN StatusText(f.status)
                       ELSE IF f.body = "no_message" THEN "unknown_error"
                       ELSE f.body)
    ELSE NoError

\* DeepSeekClient.chat: the exception a failed call raises
chat(f) ==
    CASE f.kind = "timeout" -> LLMError("1001", "timeout", "")
      [] f.kind = "connect" -> LLMError("1099", "cannot_connect", "")
      [] f.kind = "status" -> check_response_status(f)
      [] OTHER -> LLMError("1099", "call_failed", f.text)

\* DeepSeekClient.chat_stream: the status is checked inline, a line that is
\* no JSON is skipped
chat_stream(f) ==
    CASE f.kind = "timeout" -> LLMError("1001", "timeout", "")
      [] f.kind = "connect" -> LLMError("1099", "cannot_connect", "")
      [] f.kind = "status" ->
           IF f.status = 401 THEN LLMError("1002", "auth", "")
           ELSE IF f.status = 429 THEN LLMError("1003", "rate_limit", "")
           ELSE IF f.status >= 500
                THEN LLMError("1099", "provider_unavailable", "")
           ELSE LLMError("1099", "api_failed", StatusText(f.status))
      [] f.kind = "malformed" -> NoError
      [] OTHER -> LLMError("1099", "stream_call_failed", f.text)

InitClient ==
    /\ input_empty = FALSE
    /\ reply = NoReply
    /\ plan = NoPlan
    /\ pc = "calling"
    /\ InitEngineIdle
    /\ InitClientIdle
    /\ InitLibIdle

\* one more call of the client fails
ClientCall ==
    /\ pc = "calling"
    /\ Len(failures) < MaxCalls
    /\ \E f \in ClientFailures :
         failures' = Append(failures,
                            [call |-> f,
                             error |-> IF f.stream THEN chat_stream(f)
                                       ELSE chat(f)])
    /\ UNCHANGED <<collector, added, stream, turnVars>>
    /\ UNCHANGED engineVars
    /\ UNCHANGED libVars

NextClient ==
    \/ ClientCall

SpecClient == InitClient /\ [][NextClient]_vars

(***************************************************************************)
(* Properties of a DAG-mode turn.                                          *)
(***************************************************************************)
\* the turn ran _process_dag_mode and its scheduling loop is over
DagLoopEnded ==
    /\ ~UseDiscussion(mode, plan)
    /\ pc \in {"after_dag", "synth", "save", "end"}

\* the executions of node i that were started
Executions(i) == {k \in DOMAIN startLog : startLog[k][1] = i}

EventsOf(type) == {k \in DOMAIN events : events[k].type = type}

\* C1: in a DAG-mode turn, whatever plan the Planner returned, once the
\* scheduling loop has ended every node of the plan has been executed
\* exactly once.
C1_EveryNodeExecutedOnce ==
    DagLoopEnded =>
        \A i \in DOMAIN plan.nodes : Cardinality(Executions(i)) = 1

\* C1, the failing case: the loop has ended and a node whose depends_on
\* names a specialist absent from the plan was never executed.
C1_StalledNode ==
    /\ DagLoopEnded
    /\ \E i \in DOMAIN plan.nodes :
         /\ Executions(i) = {}
         /\ \E d \in plan.nodes[i].depends_on :
              d \notin Range(role_ids(plan.nodes))

\* C2: a node's execution starts only when every specialist id in its
\* depends_on has finished executing in an earlier round and is in the
\* completed set.
C2_DependenciesFirst ==
    \A k \in DOMAIN startLog :
        \A d \in plan.nodes[startLog[k][1]].depends_on :
            /\ d \in completed
            /\ \E j \in DOMAIN endLog :
                 /\ endLog[j].role = d
                 /\ endLog[j].rnd < startLog[k][2]

\* C2 witness: a node with dependencies has started, after a dependency
\* that failed
C2_Witness ==
    \E k \in DOMAIN startLog :
        /\ plan.nodes[startLog[k][1]].depends_on # {}
        /\ \E j \in DOMAIN endLog :
             /\ endLog[j].role \in plan.nodes[startLog[k][1]].depends_on
             /\ endLog[j].failed

\* C3: over a plan with more than one node, every content_delta attributed
\* to a plan node was emitted in the round that is still the latest one,
\* whatever happens next: no round follows a round that emitted one.
C3_DeltasOnlyInFinalRound ==
    (~UseDiscussion(mode, plan) /\ Len(plan.nodes) > 1) =>
        \A k \in EventsOf("content_delta") :
            events[k].rnd > 0 => events[k].rnd = rnd

\* C3 witness: the loop of a multi-node plan has ended, its final round
\* streamed text, and a node of an earlier round produced text after a
\* tool call
C3_Witness ==
    /\ DagLoopEnded
    /\ Len(plan.nodes) > 1
    /\ \E k \in EventsOf("content_delta") : events[k].rnd = rnd /\ rnd > 1
    /\ \E j \in DOMAIN endLog :
         /\ endLog[j].rnd < rnd
         /\ ~endLog[j].failed
         /\ endLog[j].content # <<>>
         /\ endLog[j].content[1][3] > 1

(***************************************************************************)
(* Synthesis, terminal events, failures.                                   *)
(***************************************************************************)
SynthCalls == {c \in calls : c.purpose = "synth"}

\* the specialists role_results holds when the loop ends: those whose
\* execution wrote an entry
ResultKeysAtLoopEnd ==
    {endLog[j].role :
        j \in {j \in DOMAIN endLog : ~endLog[j].failed \/ endLog[j].mode = "async"}}

\* two or more entries, none keyed by the synthesizer
SynthesisDue ==
    /\ Cardinality(ResultKeysAtLoopEnd) >= 2
    /\ Synthesizer \notin ResultKeysAtLoopEnd

\* the full text of the synthesis response
SynthText == Frags(0, 1, MaxChunks)

LastEvent == events[Len(events)]

LastMessage == history[Len(history)]

\* C4 as stated: when the loop ended with two or more results and none of
\* the synthesizer, the turn made exactly one synthesis call and its full
\* text is the assistant message of the history that was persisted.
C4_SynthesisAnswerPersisted ==
    (~UseDiscussion(mode, plan) /\ pc = "end" /\ SynthesisDue) =>
        /\ Cardinality(SynthCalls) = 1
        /\ LastMessage = Msg("assistant", SynthText)
        /\ stored.history = history

\* C4 amended: when the loop ended with two or more results and none of the
\* synthesizer, exactly one synthesis call is made (and none is made
\* otherwise); if it returns, its full text is the last message of the
\* history and the synthesizer's result, and that history is what the store
\* holds after a store write that succeeded; if it fails, no assistant
\* message is appended and the store is left as it was.
C4_SynthesisOnceAndAnswerIfReturned ==
    (~UseDiscussion(mode, plan) /\ pc \in {"save", "end"}) =>
        /\ Cardinality(SynthCalls) = IF SynthesisDue THEN 1 ELSE 0
        /\ \A c \in SynthCalls :
             IF c.ok
             THEN /\ LastMessage = Msg("assistant", SynthText)
                  /\ FinalResult(role_results) = SynthText
                  /\ (pc = "end" /\ fault = NoFault) => stored.history = history
             ELSE /\ LastMessage = Msg("user", UserText)
                  /\ stored \in {NoContext, PriorContext}

\* C4 witness: the synthesis call returned and its answer was persisted
C4_Witness ==
    /\ ~UseDiscussion(mode, plan)
    /\ pc = "end"
    /\ SynthesisDue
    /\ \E c \in SynthCalls : c.ok
    /\ fault = NoFault
    /\ stored.history = history
    /\ LastMessage = Msg("assistant", SynthText)

Terminal(e) == e.type \in {"done", "error"}

\* C5: the stream has at most one terminal event (done or error), it is
\* the last event and the turn is over when it is there; a turn that is
\* over ends with one; after an error event nothing was saved.
C5_OneTerminalEvent ==
    /\ Cardinality({k \in DOMAIN events : Terminal(events[k])}) <= 1
    /\ \A k \in DOMAIN events :
         Terminal(events[k]) => k = Len(events) /\ pc = "end"
    /\ pc = "end" => events # <<>> /\ Terminal(LastEvent)
    /\ EventsOf("error") # {} => stored \in {NoContext, PriorContext}

\* C5 witness: a turn ended by an error event after results of nodes had
\* been emitted
C5_Witness ==
    /\ pc = "end"
    /\ LastEvent.type = "error"
    /\ EventsOf("role_result") # {}

FailedCalls == {c \in calls : ~c.ok}

\* C6 as stated: whenever a model call after planning failed, the turn
\* ends with an error event.
C6_EveryFailureEndsTheTurn ==
    (pc = "end" /\ FailedCalls # {}) => LastEvent.type = "error"

\* C6 amended: a model-call error of the synthesis call or of a step of
\* discussion mode ends the turn with one error event that carries that
\* error's code and message; a model-call error inside the execution of a
\* node of the DAG (its first call or a call after tool calls, in any
\* round and path) never does: a turn whose only failed calls are node
\* calls ends with done.
C6_FailureSurfacedOrAbsorbed ==
    /\ fault.at \in {"synth", "discussion"} =>
         /\ pc = "end"
         /\ LastEvent = Ev("error", "", <<Tok(fault.message)>>, fault.code, 0)
         /\ Cardinality(EventsOf("error")) = 1
    /\ (\E c \in FailedCalls : c.purpose # "node") =>
         fault.at \in {"synth", "discussion"}
    /\ (pc = "end" /\ \A c \in FailedCalls : c.purpose = "node") =>
         LastEvent.type = "done"

\* C6 witness: a node's model call failed and was absorbed, then the
\* synthesis call failed with a rate-limit error and ended the turn
C6_Witness ==
    /\ pc = "end"
    /\ fault.at = "synth"
    /\ fault.code = "1003"
    /\ \E c \in FailedCalls : c.purpose = "node"

\* C7: every failed execution of a node left an entry of its specialist in
\* role_results that holds the rendered failure, and every execution started
\* in a later round had that specialist among the results its prompt renders.
C7_FailureRecorded ==
    \A j \in DOMAIN endLog :
        endLog[j].failed =>
            /\ endLog[j].role \in Keys(role_results)
            /\ \A k \in DOMAIN endLog :
                 endLog[k].rnd > endLog[j].rnd => endLog[j].role \in endLog[k].seen

\* C7, the failing case: a serial node failed, role_results has no entry of
\* its specialist, and a node that depends on it ran without seeing one
C7_FailureLost ==
    \E j \in DOMAIN endLog, k \in DOMAIN endLog :
        /\ endLog[j].failed
        /\ endLog[j].mode \in {"live", "silent"}
        /\ endLog[j].role \notin Keys(role_results)
        /\ endLog[j].role \in plan.nodes[endLog[k].node].depends_on
        /\ endLog[j].role \notin endLog[k].seen

\* the executions joined so far in the running or last round
Joined(r) == {j \in DOMAIN endLog : endLog[j].rnd = r /\ endLog[j].mode = "async"}

\* C8: in a concurrent round, whatever siblings failed, every node of the
\* round is joined, and every joined node is in completed, has its
\* role_result event emitted in the round, and has its specialist's entry
\* in role_results (the result of the specialist's node joined last).
C8_SiblingsUnaffected ==
    /\ \A k \in DOMAIN startLog :
         (startLog[k][2] < rnd \/ pc # "run") =>
             \E j \in DOMAIN endLog :
                 endLog[j].node = startLog[k][1] /\ endLog[j].rnd = startLog[k][2]
    /\ \A j \in DOMAIN endLog :
         endLog[j].mode = "async" =>
             /\ endLog[j].role \in completed
             /\ \E e \in EventsOf("role_result") :
                  /\ events[e].role = endLog[j].role
                  /\ events[e].content = endLog[j].content
                  /\ events[e].rnd = endLog[j].rnd
             /\ endLog[j].role \in Keys(role_results)
             /\ (pc \in {"run", "dag"} /\ endLog[j].rnd = rnd
                   /\ \A i \in Joined(rnd) :
                        i > j => endLog[i].role # endLog[j].role) =>
                  role_results[GetResult(role_results, endLog[j].role)].content
                      = endLog[j].content

\* C8 witness: a concurrent round was joined in which the node that
\* completed first failed and a sibling declared before it succeeded
C8_Witness ==
    /\ pc = "dag"
    /\ \E j \in Joined(rnd), i \in Joined(rnd) :
         /\ endLog[j].failed
         /\ endLog[j].node = firstDone
         /\ ~endLog[i].failed
         /\ endLog[i].node < endLog[j].node

\* C9: whatever happened to the tool call just processed, the node neither
\* failed nor ended the turn: its task is still running the tool loop or
\* about to call the model again, the last message appended is the tool
\* message, with an error payload unless the call returned; no execution
\* ever failed because of a tool call.
C9_ToolFailuresAbsorbed ==
    /\ lastTool.case # "none" =>
         /\ lastTool.task \in DOMAIN tasks
         /\ LET t == tasks[lastTool.task]
            IN /\ ~t.failed
               /\ t.st = IF t.pending > 0 THEN "tools" ELSE "call"
               /\ t.msgs # <<>>
               /\ t.msgs[Len(t.msgs)]
                    = IF lastTool.case \in {"ok", "foreign"} THEN "result" ELSE "error"
         /\ EventsOf("error") = {}
    /\ \A j \in DOMAIN endLog : endLog[j].cause # "tool"

\* C9 witness: a tool's execute raised, the error message was appended and
\* the loop went on to the next tool call of the response
C9_Witness ==
    /\ lastTool.case = "exec_raises"
    /\ tasks[lastTool.task].st = "tools"
    /\ tasks[lastTool.task].msgs = <<"assistant", "error">>

(***************************************************************************)
(* Properties of the Planner (SpecPlan).                                   *)
(***************************************************************************)
\* node i lists the specialist of node j
DependsOnNode(nodes, i, j) == nodes[j].role_id \in nodes[i].depends_on

\* node j is reached from node i along at most k dependency edges
RECURSIVE ReachableIn(_, _, _, _)
ReachableIn(nodes, i, j, k) ==
    IF k = 0 THEN FALSE
    ELSE \/ DependsOnNode(nodes, i, j)
         \/ \E m \in DOMAIN nodes :
              DependsOnNode(nodes, i, m) /\ ReachableIn(nodes, m, j, k - 1)

HasCycle(nodes) == \E i \in DOMAIN nodes : ReachableIn(nodes, i, i, Len(nodes))

\* C10: when the node list parsed from the reply has a dependency cycle,
\* the plan returned keeps all its nodes, in order, each with an empty
\* depends_on, and is not a fallback plan.
C10_CycleNeutralized ==
    (pc = "planned" /\ ~input_empty /\ reply.kind = "json"
       /\ HasCycle(ParseNodes(reply.nodes))) =>
        /\ role_ids(plan.nodes) = role_ids(ParseNodes(reply.nodes))
        /\ \A i \in DOMAIN plan.nodes : plan.nodes[i].depends_on = {}
        /\ plan.reason = "model_reason"

\* C10 witness: a cycle through three nodes was neutralized
C10_Witness ==
    /\ pc = "planned"
    /\ ~input_empty
    /\ reply.kind = "json"
    /\ LET nodes == ParseNodes(reply.nodes)
       IN /\ Len(nodes) = 3
          /\ HasCycle(nodes)
          /\ \A i \in DOMAIN nodes : ~DependsOnNode(nodes, i, i)
          /\ \A i, j \in DOMAIN nodes :
               DependsOnNode(nodes, i, j) => ~DependsOnNode(nodes, j, i)
    /\ \A i \in DOMAIN plan.nodes : plan.nodes[i].depends_on = {}

\* C11: in the plan the Planner returned, every entry of every node's
\* depends_on names a node of the plan, and every node names a registered
\* specialist.
C11_EdgesNameNodesOfThePlan ==
    pc = "planned" =>
        \A i \in DOMAIN plan.nodes :
            /\ get_role(plan.nodes[i].role_id)
            /\ \A d \in plan.nodes[i].depends_on :
                 d \in Range(role_ids(plan.nodes))

\* C11, the failing case: the reply named a registered specialist that is
\* no node of the reply as a dependency, and the returned plan kept the edge
C11_DanglingEdge ==
    /\ pc = "planned"
    /\ reply.kind = "json"
    /\ \E i \in DOMAIN plan.nodes :
         \E d \in plan.nodes[i].depends_on :
             /\ get_role(d)
             /\ d \notin Range(role_ids(plan.nodes))

\* no node of the reply names a registered specialist
NoValidNode(nodes_data) ==
    \A i \in DOMAIN nodes_data : ~get_role(nodes_data[i].role_id)

\* C12: plan_execution always returns a plan (at least one node, every node
\* a registered specialist); for an empty input, a failed model call, a
\* reply without a JSON object, with invalid JSON, of another shape than a
\* plan, or without any valid node, the plan is exactly one
\* purchase_consultant node without dependencies.
C12_PlannerAlwaysReturnsAPlan ==
    pc = "planned" =>
        /\ plan.nodes # <<>>
        /\ \A i \in DOMAIN plan.nodes : get_role(plan.nodes[i].role_id)
        /\ (\/ input_empty
            \/ reply.kind \in {"llm_error", "no_json", "bad_json", "wrong_shape"}
            \/ reply.kind = "json" /\ NoValidNode(reply.nodes)) =>
               plan.nodes = <<ExecutionNode("purchase_consultant", {})>>

\* C12 witness: a reply of MaxNodes nodes, none of a registered specialist,
\* gave the fallback plan
C12_Witness ==
    /\ pc = "planned"
    /\ reply.kind = "json"
    /\ Len(reply.nodes) = MaxNodes
    /\ NoValidNode(reply.nodes)
    /\ plan.nodes = <<ExecutionNode("purchase_consultant", {})>>
    /\ plan.reason = "empty_result"

(***************************************************************************)
(* What the caller sees of the text a node generates.                      *)
(***************************************************************************)
\* the content is text the model generated (fragments of a response)
IsAnswerText(c) == c # <<>> /\ c[1][1] = "frag"

\* C13: over a plan with more than one node, every content_delta and every
\* role_result that carries text generated by a node was emitted in the
\* round that is still the latest one: no round follows a round in which a
\* node's answer text reached the caller.
C13_TextWithheldBeforeFinalRound ==
    (~UseDiscussion(mode, plan) /\ Len(plan.nodes) > 1) =>
        \A k \in DOMAIN events :
            (/\ events[k].rnd > 0
             /\ events[k].type \in {"content_delta", "role_result"}
             /\ IsAnswerText(events[k].content)) =>
                events[k].rnd = rnd

\* C13, the failing case: a concurrent round that was not the last one
\* emitted a role_result with the full answer of one of its nodes
C13_AnswerOfEarlierRound ==
    /\ DagLoopEnded
    /\ \E k \in EventsOf("role_result") :
         /\ events[k].rnd > 0
         /\ events[k].rnd < rnd
         /\ IsAnswerText(events[k].content)
         /\ \E j \in DOMAIN endLog :
              /\ endLog[j].rnd = events[k].rnd
              /\ endLog[j].mode = "async"
              /\ endLog[j].role = events[k].role

(***************************************************************************)
(* Text that accompanies tool-call requests.                               *)
(***************************************************************************)
\* response n of node i requested tool calls: the node made a further call
RequestedTools(i, n) ==
    \E c \in calls : c.purpose = "node" /\ c.node = i /\ c.n > n

\* the notices that quote (the head of) a text
NoticesOf(text) ==
    {k \in EventsOf("thinking_step") :
        events[k].tag = "planning" /\ events[k].content = Truncated(text)}

\* C14: no content_delta event of a node's execution carries a fragment of a
\* response that also requested tool calls.
C14_TextWithToolCallsNotStreamed ==
    \A k \in EventsOf("content_delta") :
        events[k].rnd > 0 =>
            ~RequestedTools(events[k].content[1][2], events[k].content[1][3])

\* C14, the failing case: a live node's response carried text and tool-call
\* requests; the turn ended with the text emitted as content_delta events and
\* with no notice quoting it
C14_ThinkingTextStreamed ==
    /\ pc = "end"
    /\ \E k \in EventsOf("content_delta") :
         LET f == events[k].content[1]
         IN /\ events[k].rnd > 0
            /\ RequestedTools(f[2], f[3])
            /\ NoticesOf(Frags(f[2], f[3], MaxChunks)) = {}

(***************************************************************************)
(* The order of the stream.                                                *)
(***************************************************************************)
\* the two planning notices and the thinking_start before them
IsPlanningEvent(e) ==
    /\ e.rnd = 0
    /\ e.role = ""
    /\ e.type \in {"thinking_start", "thinking_step"}
    /\ e.tag \in {"", "planning"}

\* the events of the synthesis of a DAG-mode turn
IsSynthesisEvent(e) ==
    /\ ~UseDiscussion(mode, plan)
    /\ e.rnd = 0
    /\ ~Terminal(e)
    /\ \/ e.tag \in {"synthesizing", "summary"}
       \/ e.type = "content_delta" /\ e.role = Synthesizer

\* the place of an event in the turn: planning, scheduling round k (in
\* discussion mode the discussion counts as one round), synthesis, terminal
Phase(e) ==
    IF Terminal(e) THEN MaxNodes + 2
    ELSE IF e.rnd > 0 THEN e.rnd
    ELSE IF IsSynthesisEvent(e) THEN MaxNodes + 1
    ELSE IF IsPlanningEvent(e) THEN 0
    ELSE 1

\* the round in which the node of a specialist was started
StartedInRound(role, n) ==
    \E j \in DOMAIN startLog :
        plan.nodes[startLog[j][1]].role_id = role /\ startLog[j][2] = n

\* C15: the stream starts with thinking_start and the two planning notices;
\* phases never go back (planning, round 1, round 2, ..., synthesis,
\* terminal); an event tagged with a round belongs to a node started in that
\* round and no round is later than the current one; in DAG mode every
\* other event is a planning, a synthesis or a terminal event; a terminal
\* event is the last event.
C15_EventOrder ==
    /\ \A k \in DOMAIN events :
         /\ (k <= 3) = IsPlanningEvent(events[k])
         /\ Terminal(events[k]) => k = Len(events)
         /\ events[k].rnd <= rnd
         /\ events[k].rnd > 0 => StartedInRound(events[k].role, events[k].rnd)
         /\ ~UseDiscussion(mode, plan) =>
                \/ IsPlanningEvent(events[k])
                \/ events[k].rnd > 0
                \/ IsSynthesisEvent(events[k])
                \/ Terminal(events[k])
    /\ \A k \in 1..(Len(events) - 1) :
         Phase(events[k]) <= Phase(events[k + 1])

\* C15 witness: a finished turn with two scheduling rounds, a synthesis and
\* the done event
C15_Witness ==
    /\ pc = "end"
    /\ LastEvent.type = "done"
    /\ \E k \in DOMAIN events : events[k].rnd = 2
    /\ \E k \in DOMAIN events : events[k].rnd = 1
    /\ \E k \in DOMAIN events : events[k].tag = "synthesizing"

(***************************************************************************)
(* The collector of a streaming call.                                      *)
(***************************************************************************)
\* every tool-call delta added so far, in arrival order
DeltasAdded == Flatten([k \in DOMAIN added |-> added[k].tool_calls])

\* the positions, in arrival order, of the deltas of index ix
PositionsAt(ds, ix) == {k \in DOMAIN ds : IndexOf(ds[k]) = ix}

FirstAt(ds, ix) ==
    CHOOSE k \in PositionsAt(ds, ix) : \A j \in PositionsAt(ds, ix) : k <= j

\* the argument fragments of the deltas of index ix from position k on,
\* concatenated in arrival order
RECURSIVE ArgsFrom(_, _, _)
ArgsFrom(ds, ix, k) ==
    IF k > Len(ds) THEN <<>>
    ELSE (IF IndexOf(ds[k]) = ix THEN ds[k].arguments ELSE <<>>)
             \o ArgsFrom(ds, ix, k + 1)

IndexesOf(ds) == {IndexOf(ds[k]) : k \in DOMAIN ds}

\* the place of index ix among the indexes, by first arrival
RankOf(ds, ix) ==
    Cardinality({jx \in IndexesOf(ds) : FirstAt(ds, jx) <= FirstAt(ds, ix)})

\* C16: after any sequence of chunks the result holds one tool-call record
\* per distinct delta index (a delta without index counts for index 0), in
\* the order the indexes first arrived; the record of an index has the id
\* and the name of the first delta of that index and, as arguments, the
\* fragments of exactly the deltas of that index in arrival order.
C16_OneRecordPerIndex ==
    pc = "collecting" =>
        LET res == get_result(collector).tool_calls
            ds == DeltasAdded
        IN /\ Len(res) = Cardinality(IndexesOf(ds))
           /\ \A ix \in IndexesOf(ds) :
                LET r == res[RankOf(ds, ix)]
                    first == ds[FirstAt(ds, ix)]
                IN /\ r.id = first.id
                   /\ r.name = first.name
                   /\ r.arguments = ArgsFrom(ds, ix, 1)

\* C16 witness: deltas of two indexes arrived interleaved over two chunks,
\* the later deltas carrying another id than the first, and a record
\* collected two fragments
C16_Witness ==
    /\ pc = "collecting"
    /\ Len(added) = MaxAdds
    /\ LET ds == DeltasAdded
       IN /\ Cardinality(IndexesOf(ds)) = 2
          /\ \E ix \in IndexesOf(ds) :
               /\ Cardinality(PositionsAt(ds, ix)) >= 2
               /\ \E k \in PositionsAt(ds, ix) : ds[k].id # ds[FirstAt(ds, ix)].id
               /\ \E k \in DOMAIN ds :
                    FirstAt(ds, ix) < k /\ k \notin PositionsAt(ds, ix)
               /\ Len(get_result(collector).tool_calls[RankOf(ds, ix)].arguments) >= 2

(***************************************************************************)
(* Termination of a turn.                                                  *)
(***************************************************************************)
\* C17: when every model call and every tool call returns, every turn
\* whose plan is made eventually emits its terminal done or error event.
C17_EveryTurnEnds == (pc = "dag") ~> (pc = "end" /\ Terminal(LastEvent))

\* C17, the failing case: the tool budget of the turn is used up and the
\* handler has called itself once more for a task that is still running
C17_ToolLoopGoesOn ==
    /\ pc = "run"
    /\ toolCalls = TurnToolCalls(mode, plan)
    /\ lastTool.case = "beyond"
    /\ tasks[lastTool.task].st = "call"
    /\ ~\E k \in DOMAIN events : Terminal(events[k])

(***************************************************************************)
(* A stalled DAG.                                                          *)
(***************************************************************************)
\* the loop ended on an empty ready set while a node of the plan had not
\* completed
StalledDag ==
    /\ DagLoopEnded
    /\ \E i \in DOMAIN plan.nodes : plan.nodes[i].role_id \notin completed

\* C18 as stated: after a stalled DAG no error event is emitted and the
\* turn ends with done.
C18_StallNeverEndsInError ==
    StalledDag =>
        /\ EventsOf("error") = {}
        /\ pc = "end" => LastEvent.type = "done"

\* C18: a stalled DAG raises nothing when the loop stops; the synthesis
\* check is made on the results that exist; the only error event a stalled
\* turn can emit is that of a failed synthesis call; otherwise the final
\* result (if any) becomes the assistant message and the turn ends with
\* done after the save.
C18_StallEndsInDoneUnlessSynthesisFails ==
    StalledDag =>
        /\ pc = "after_dag" => (EventsOf("error") = {} /\ fault = NoFault)
        /\ pc \in {"save", "end"} =>
              Cardinality(SynthCalls) = IF SynthesisDue THEN 1 ELSE 0
        /\ EventsOf("error") # {} =>
              /\ \E c \in SynthCalls : ~c.ok
              /\ fault.at = "synth"
        /\ (pc \in {"save", "end"} /\ SynthCalls = {}) =>
              LastMessage = IF role_results = <<>> THEN Msg("user", UserText)
                            ELSE Msg("assistant", FinalResult(role_results))
        /\ (pc = "end" /\ \A c \in SynthCalls : c.ok) =>
              /\ LastEvent.type = "done"
              /\ fault = NoFault => stored.history = history

\* C18 witness: a node never ran, the other nodes' results were
\* synthesized and the turn ended with done
C18_Witness ==
    /\ StalledDag
    /\ pc = "end"
    /\ \E i \in DOMAIN plan.nodes : Executions(i) = {}
    /\ \E c \in SynthCalls : c.ok
    /\ LastEvent.type = "done"
    /\ stored.history = history

(***************************************************************************)
(* Failures of the context store.                                          *)
(***************************************************************************)
\* the step of process that loads the context: the turn goes on, on the
\* stored context or on a fresh one, and on a fresh one when the store
\* holds nothing
LoadAbsorbed ==
    /\ pc' \in {"dag", "disc_init"}
    /\ EventsOf("error")' = {}
    /\ history' \in {<<Msg("user", UserText)>>,
                     Append(stored.history, Msg("user", UserText))}
    /\ role_results' \in {<<>>, stored.role_results}
    /\ ~stored.present =>
          (history' = <<Msg("user", UserText)>> /\ role_results' = <<>>)
    /\ stored' = stored

\* the step of process that saves the context: done follows the events
\* emitted so far and the store holds the new context or what it held
SaveAbsorbed ==
    /\ pc' = "end"
    /\ events' = Append(events, Ev("done", "", <<>>, "", 0))
    /\ stored' \in {stored,
                    [history |-> history, role_results |-> role_results,
                     present |-> TRUE]}

\* C19: whatever the store does, the load step starts the turn on the
\* stored or on a fresh context and the save step ends it with done,
\* leaving the emitted events as they are.
C19_StoreFailuresAbsorbed ==
    [][/\ pc = "start" => LoadAbsorbed
       /\ pc = "save" => SaveAbsorbed]_vars

\* C19 witness: the store held a context, the load failed and the turn ran
\* on a fresh one; the save failed too and the turn ended with done
C19_Witness ==
    /\ pc = "end"
    /\ stored = PriorContext
    /\ history[1] = Msg("user", UserText)
    /\ fault.at = "save"
    /\ LastEvent.type = "done"

(***************************************************************************)
(* The messages of the client's errors.                                    *)
(***************************************************************************)
\* timeout, connection failure, 401, 429, >= 500, other status, malformed
\* payload, other exception
FailureClass(f) ==
    IF f.kind # "status" THEN f.kind
    ELSE IF f.status = 401 THEN "401"
    ELSE IF f.status = 429 THEN "429"
    ELSE IF f.status >= 500 THEN "5xx"
    ELSE "other_status"

\* C20: two failed calls of the same class on the same path (chat or
\* chat_stream) raise the same code and message, and process would emit
\* the same error event for them.
C20_SameClassSameMessage ==
    \A i \in DOMAIN failures : \A j \in DOMAIN failures :
        (/\ failures[i].call.stream = failures[j].call.stream
         /\ FailureClass(failures[i].call) = FailureClass(failures[j].call)) =>
            /\ failures[i].error = failures[j].error
            /\ ErrorEvent(failures[i].error) = ErrorEvent(failures[j].error)

\* C20, the failing case: two chat calls answered with the same status 400
\* and different error messages in the body raise errors whose messages
\* quote the body
C20_ProviderTextInMessage ==
    /\ Len(failures) = MaxCalls
    /\ \A i \in DOMAIN failures :
         /\ ~failures[i].call.stream
         /\ failures[i].call.status = 400
         /\ failures[i].error.message[2] = failures[i].call.body
    /\ failures[1].call.body = "msg_a"
    /\ failures[2].call.body = "msg_b"
    /\ ErrorEvent(failures[1].error) # ErrorEvent(failures[2].error)


CallsOf(purpose) == {c \in calls : c.purpose = purpose}

\* the role_result events of the specialists' first analyses
InitialResults == {k \in EventsOf("role_result") : IsAnswerText(events[k].content)}

\* the discussion has left the loop over the specialists' first analyses
PastInitial == pc # "disc_init" /\ Len(disc.hist) >= Len(plan.nodes)

FlatPlan ==
    /\ ~UseDiscussion(mode, plan)
    /\ Len(plan.nodes) >= 2
    /\ \A i \in DOMAIN plan.nodes :
         /\ plan.nodes[i].depends_on = {}
         /\ plan.nodes[i].role_id # Synthesizer

\* the synthesis was streamed: its role_start, content_delta events of the
\* synthesizer whose texts add up to the summary, then the role_result
\* marked as summary
SynthesisDelivered ==
    \E a \in DOMAIN events, b \in DOMAIN events :
      /\ a < b
      /\ events[a] = Ev("role_start", Synthesizer, <<>>, "summary", 0)
      /\ events[b].type = "role_result" /\ events[b].tag = "summary"
      /\ events[b].role = Synthesizer
      /\ b - a >= 2
      /\ \A k \in (a + 1)..(b - 1) :
           events[k].type = "content_delta" /\ events[k].role = Synthesizer
      /\ events[b].content
           = Flatten([k \in 1..(b - a - 1) |-> events[a + k].content])

\* C22 as stated: a plan of two or more nodes without dependencies, none of
\* them the synthesizer, runs all its nodes in one concurrent round, joins
\* them, and then delivers a synthesis as content_delta events of the
\* synthesizer followed by its role_result marked as summary.
C22_FlatPlanSynthesized ==
    (FlatPlan /\ pc \in {"after_dag", "synth", "save", "end"}) =>
      /\ rnd = 1
      /\ Len(startLog) = Len(plan.nodes)
      /\ \A i \in DOMAIN plan.nodes : Cardinality(Executions(i)) = 1
      /\ Len(endLog) = Len(plan.nodes)
      /\ \A k \in DOMAIN endLog : endLog[k].mode = "async"
      /\ pc \in {"save", "end"} => SynthesisDelivered

\* C22 for plans of distinct specialists whose synthesis call returns
C22_DistinctFlatPlanSynthesized ==
    (FlatPlan /\ pc \in {"after_dag", "synth", "save", "end"}
       /\ Cardinality(Range(role_ids(plan.nodes))) = Len(plan.nodes)) =>
      /\ rnd = 1
      /\ Len(startLog) = Len(plan.nodes)
      /\ \A i \in DOMAIN plan.nodes : Cardinality(Executions(i)) = 1
      /\ Len(endLog) = Len(plan.nodes)
      /\ \A k \in DOMAIN endLog : endLog[k].mode = "async"
      /\ pc # "after_dag" => SynthCalls # {} \/ pc = "synth"
      /\ (pc \in {"save", "end"} /\ fault.at # "synth") => SynthesisDelivered

\* two concurrent nodes of the same specialist: one result, no synthesis
C22_SameRoleTwiceNoSynthesis ==
    /\ FlatPlan
    /\ pc = "end"
    /\ LastEvent.type = "done"
    /\ Len(endLog) = 2
    /\ plan.nodes[1].role_id = plan.nodes[2].role_id
    /\ Len(role_results) = 1
    /\ SynthCalls = {}
    /\ EventsOf("content_delta") = {}

IsStreamEvent(e) ==
    e.type \in {"role_start", "content_delta", "role_result", "done", "error"}

\* the model calls made for the nodes of the plan
NodeCalls == CallsOf("node")

\* a finished turn over a single-node plan whose node made one model call,
\* which returned text and requested no tool
SingleTextTurn ==
    /\ ~UseDiscussion(mode, plan)
    /\ Len(plan.nodes) = 1
    /\ pc = "end"
    /\ Cardinality(NodeCalls) = 1
    /\ \A c \in NodeCalls : c.ok
    /\ toolCalls = 0

\* C23: for a single-node plan whose response requests no tool and raises
\* no error, the events of type role_start, content_delta, role_result,
\* done and error are exactly: one role_start, the content_delta events,
\* one role_result whose content is the concatenation of the deltas, done.
C23_SingleNodeStream ==
    SingleTextTurn =>
      LET es == SelectSeq(events, IsStreamEvent)
          n == Len(es)
          role == plan.nodes[1].role_id
      IN /\ n >= 3
         /\ es[1] = Ev("role_start", role, <<>>, "", 1)
         /\ \A k \in 2..(n - 2) :
              es[k].type = "content_delta" /\ es[k].role = role
         /\ es[n - 1].type = "role_result"
         /\ es[n - 1].role = role
         /\ es[n - 1].content = Flatten([k \in 1..(n - 3) |-> es[k + 1].content])
         /\ es[n - 1].content = role_results[1].content
         /\ es[n] = Ev("done", "", <<>>, "", 0)

\* a single live node has streamed its two fragments and the turn is done
C23_Witness ==
    /\ SingleTextTurn
    /\ Cardinality(EventsOf("content_delta")) = MaxChunks
    /\ Cardinality(EventsOf("role_result")) = 1
    /\ LastEvent.type = "done"

(***************************************************************************)
(* SpecReady: ExecutionPlan.get_ready_nodes called repeatedly on one plan  *)
(* and one completed set.                                                  *)
(***************************************************************************)
MaxReadyCalls == 2

InitTurnIdle(p) ==
    /\ input_empty = FALSE
    /\ reply = NoReply
    /\ plan = NoPlan
    /\ pc = p

\* a call that also adds what it returns to the completed set it was given
ReadyCall_marking(nodes, completedSet) ==
    LET r == get_ready_nodes(nodes, completedSet)
    IN [ready |-> r, nodes |-> nodes,
        completed |-> completedSet \cup {nodes[r[k]].role_id : k \in DOMAIN r}]

\* one call of get_ready_nodes: the list it returns, and self.nodes and
\* completed as the call leaves them ("ready = []" is a new list, the loop
\* only reads node.role_id, node.depends_on and completed)
ReadyCall(nodes, completedSet) ==
    [ready |-> get_ready_nodes(nodes, completedSet), nodes |-> nodes,
     completed |-> completedSet]

\* the nodes of a plan: registered ids, any dependencies among them
ReadyNodes == [role_id : ReplyRoleIds, depends_on : SUBSET ReplyRoleIds]

InitReady ==
    /\ InitTurnIdle("ready")
    /\ InitEngineIdle
    /\ InitClientIdle
    /\ registry = <<>>
    /\ regOps = <<>>
    /\ execution = NoExecution
    /\ session = NoSession
    /\ \E k \in 0..MaxNodes :
         \E s \in [1..k -> ReadyNodes], c \in SUBSET ReplyRoleIds :
            ready = [nodes |-> s, completed |-> c, results |-> <<>>,
                     given |-> [nodes |-> s, completed |-> c]]

\* plan.get_ready_nodes(completed), once more
GetReady ==
    /\ pc = "ready"
    /\ Len(ready.results) < MaxReadyCalls
    /\ LET r == ReadyCall(ready.nodes, ready.completed)
       IN ready' = [ready EXCEPT !.nodes = r.nodes,
                                 !.completed = r.completed,
                                 !.results = Append(@, r.ready)]
    /\ UNCHANGED <<turnVars, engineVars, clientVars>>
    /\ UNCHANGED <<registry, regOps, execution, session>>

NextReady ==
    \/ GetReady

SpecReady == InitReady /\ [][NextReady]_vars

MaxOps == 3
MaxInstances == 2

ToolNames == {"calc_loan", "query_market"}

\* a name no tool carries
UnregisteredName == "unknown_tool"

\* a tool instance: its name and its identity
ToolInstances == [name : ToolNames, id : 1..MaxInstances]

\* what dict.get returns for a missing key
None == [name |-> "", id |-> 0]

HasKey(tools, name) == \E k \in DOMAIN tools : tools[k].name = name

\* a register that keeps the instance already stored under the name
register_setdefault(tools, tool) ==
    IF HasKey(tools, tool.name) THEN tools ELSE Append(tools, tool)

\* self._tools[tool.name] = tool: the dict in insertion order, a stored key
\* keeps its position
register(tools, tool) ==
    IF HasKey(tools, tool.name)
    THEN [k \in DOMAIN tools |->
            IF tools[k].name = tool.name THEN tool ELSE tools[k]]
    ELSE Append(tools, tool)

\* self._tools.get(name)
get(tools, name) ==
    IF HasKey(tools, name)
    THEN tools[CHOOSE k \in DOMAIN tools : tools[k].name = name]
    ELSE None

\* name in self._tools
exists(tools, name) == HasKey(tools, name)

\* self._tools.clear()
clear(tools) == <<>>

InitRegistry ==
    /\ InitTurnIdle("registry")
    /\ InitEngineIdle
    /\ InitClientIdle
    /\ InitLibIdle

Register ==
    /\ pc = "registry"
    /\ Len(regOps) < MaxOps
    /\ \E tool \in ToolInstances :
         /\ registry' = register(registry, tool)
         /\ regOps' = Append(regOps, [op |-> "register", tool |-> tool])
    /\ UNCHANGED <<turnVars, engineVars, clientVars>>
    /\ UNCHANGED <<ready, execution, session>>

Clear ==
    /\ pc = "registry"
    /\ Len(regOps) < MaxOps
    /\ registry' = clear(registry)
    /\ regOps' = Append(regOps, [op |-> "clear", tool |-> None])
    /\ UNCHANGED <<turnVars, engineVars, clientVars>>
    /\ UNCHANGED <<ready, execution, session>>

NextRegistry ==
    \/ Register
    \/ Clear

SpecRegistry == InitRegistry /\ [][NextRegistry]_vars

\* the instance most recently registered under the name among the first i
\* calls, since the last clear; None when there is none
RECURSIVE LastRegistered(_, _, _)
LastRegistered(ops, name, i) ==
    IF i = 0 THEN None
    ELSE IF ops[i].op = "clear" THEN None
    ELSE IF ops[i].tool.name = name THEN ops[i].tool
    ELSE LastRegistered(ops, name, i - 1)

\* C25: after any sequence of register and clear calls, get(name) returns
\* the instance most recently registered under that name since the last
\* clear, and None when there is none, in which case exists(name) is false;
\* registering a name again replaces its instance and changes no other
\* name's; no name is stored twice.
C25_RegistryHoldsLastRegistered ==
    pc = "registry" =>
      /\ \A name \in ToolNames \cup {UnregisteredName} :
           /\ get(registry, name) = LastRegistered(regOps, name, Len(regOps))
           /\ exists(registry, name) <=> get(registry, name) # None
      /\ \A a \in DOMAIN registry, b \in DOMAIN registry :
           registry[a].name = registry[b].name => a = b

\* a name registered twice with different instances while another name is
\* registered: the second instance is returned, the other name is kept
C25_Witness ==
    /\ pc = "registry"
    /\ Len(regOps) = 3
    /\ regOps[1] = [op |-> "register", tool |-> [name |-> "calc_loan", id |-> 1]]
    /\ regOps[2] = [op |-> "register", tool |-> [name |-> "query_market", id |-> 1]]
    /\ regOps[3] = [op |-> "register", tool |-> [name |-> "calc_loan", id |-> 2]]
    /\ get(registry, "calc_loan") = [name |-> "calc_loan", id |-> 2]
    /\ get(registry, "query_market") = [name |-> "query_market", id |-> 1]

(***************************************************************************)
(* SpecTool: BaseTool.execute of a tool with any declared parameters, on   *)
(* any keyword arguments.                                                  *)
(***************************************************************************)
MaxParams == 2

ParamTypes == {"string", "number", "integer", "boolean"}

\* ToolParameter: the parameter at position i is named by i; in the tools
\* of the repository only string parameters declare an enum
ToolParameters ==
    {p \in [type : ParamTypes, required : BOOLEAN, enum : BOOLEAN] :
       p.enum => p.type = "string"}

\* a keyword argument: the Python type of its value (of a JSON string,
\* integer, real, true/false or null) and, for a string, whether it is one
\* of the parameter's enum values
ArgValues ==
    {[kind |-> "str", in_enum |-> TRUE], [kind |-> "str", in_enum |-> FALSE],
     [kind |-> "int", in_enum |-> FALSE], [kind |-> "float", in_enum |-> FALSE],
     [kind |-> "bool", in_enum |-> FALSE],
     [kind |-> "NoneType", in_enum |-> FALSE]}

\* param.name not in kwargs
Absent == [kind |-> "absent", in_enum |-> FALSE]

\* _check_type: isinstance(value, type_mapping[expected_type]); bool is a
\* subclass of int, so True and False are instances of int and (int, float)
check_type(value, expected_type) ==
    CASE expected_type = "string" -> value.kind = "str"
      [] expected_type = "number" -> value.kind \in {"int", "float", "bool"}
      [] expected_type = "integer" -> value.kind \in {"int", "bool"}
      [] expected_type = "boolean" -> value.kind = "bool"
      [] OTHER -> TRUE

NoValueError == [error |-> "none", param |-> 0]

\* validate_params: the first ValueError of "for param in self.parameters"
RECURSIVE validate_from(_, _, _)
validate_from(parameters, kwargs, i) ==
    IF i > Len(parameters) THEN NoValueError
    ELSE LET param == parameters[i]
             value == kwargs[i]
         IN IF param.required /\ value = Absent
            THEN [error |-> "missing", param |-> i]
            ELSE IF value # Absent /\ ~check_type(value, param.type)
            THEN [error |-> "type", param |-> i]
            ELSE IF value # Absent /\ param.enum /\ ~value.in_enum
            THEN [error |-> "enum", param |-> i]
            ELSE validate_from(parameters, kwargs, i + 1)

validate_params(parameters, kwargs) == validate_from(parameters, kwargs, 1)

\* execute of every tool: self.validate_params(**kwargs) is the first
\* statement; the computation, the cache access and the lookups follow
execute(parameters, kwargs) ==
    LET v == validate_params(parameters, kwargs)
    IN IF v.error # "none"
       THEN [result |-> "ValueError", error |-> v.error, param |-> v.param,
             computed |-> FALSE]
       ELSE [result |-> "returned", error |-> "none", param |-> 0,
             computed |-> TRUE]

InitTool ==
    /\ InitTurnIdle("tool")
    /\ InitEngineIdle
    /\ InitClientIdle
    /\ ready = NoReady
    /\ registry = <<>>
    /\ regOps = <<>>
    /\ session = NoSession
    /\ \E k \in 0..MaxParams :
         \E ps \in [1..k -> ToolParameters],
            kw \in [1..k -> ArgValues \cup {Absent}] :
            execution = [parameters |-> ps, kwargs |-> kw, result |-> "none",
                         error |-> "none", param |-> 0, computed |-> FALSE]

\* await tool.execute(**kwargs)
Execute ==
    /\ pc = "tool"
    /\ execution.result = "none"
    /\ LET r == execute(execution.parameters, execution.kwargs)
       IN execution' = [execution EXCEPT !.result = r.result,
                                         !.error = r.error,
                                         !.param = r.param,
                                         !.computed = r.computed]
    /\ UNCHANGED <<turnVars, engineVars, clientVars>>
    /\ UNCHANGED <<ready, registry, regOps, session>>

NextTool ==
    \/ Execute

SpecTool == InitTool /\ [][NextTool]_vars

\* the JSON types a declared type admits
WrongType(value, declared) ==
    CASE declared = "string" -> value.kind # "str"
      [] declared = "number" -> value.kind \notin {"int", "float"}
      [] declared = "integer" -> value.kind # "int"
      [] declared = "boolean" -> value.kind # "bool"

\* what is wrong with the argument given for a parameter
Offence(param, value) ==
    IF value = Absent THEN (IF param.required THEN "missing" ELSE "none")
    ELSE IF WrongType(value, param.type) THEN "type"
    ELSE IF param.enum /\ ~value.in_enum THEN "enum"
    ELSE "none"

Offending(e) ==
    {i \in DOMAIN e.parameters : Offence(e.parameters[i], e.kwargs[i]) # "none"}

\* C26 as stated: when a required parameter is missing, or a value has the
\* wrong type or is outside the enum, execute raises the validation error
\* of the first offending parameter in declaration order and nothing has
\* been computed; without an offending parameter it computes.
C26_FirstOffendingParameterRaises ==
    (pc = "tool" /\ execution.result # "none") =>
      IF Offending(execution) = {}
      THEN execution.result = "returned"
      ELSE LET first == CHOOSE i \in Offending(execution) :
                          \A j \in Offending(execution) : i <= j
           IN /\ execution.result = "ValueError"
              /\ execution.param = first
              /\ execution.error = Offence(execution.parameters[first],
                                           execution.kwargs[first])
              /\ ~execution.computed

\* a boolean passed for a required number: no error, the tool computes
C26_BooleanAcceptedAsNumber ==
    /\ pc = "tool"
    /\ Len(execution.parameters) = 1
    /\ execution.parameters[1] = [type |-> "number", required |-> TRUE,
                                  enum |-> FALSE]
    /\ execution.kwargs[1].kind = "bool"
    /\ execution.result = "returned"
    /\ execution.computed

\* C26 for every argument that is not a boolean given for a number or an
\* integer
C26_RaisesExceptForBooleans ==
    (pc = "tool" /\ execution.result # "none"
       /\ \A i \in DOMAIN execution.parameters :
            ~(execution.kwargs[i].kind = "bool"
              /\ execution.parameters[i].type \in {"number", "integer"})) =>
      IF Offending(execution) = {}
      THEN execution.result = "returned" /\ execution.computed
      ELSE LET first == CHOOSE i \in Offending(execution) :
                          \A j \in Offending(execution) : i <= j
           IN /\ execution.result = "ValueError"
              /\ execution.param = first
              /\ execution.error = Offence(execution.parameters[first],
                                           execution.kwargs[first])
              /\ ~execution.computed

\* the scheduling loop of a plan of several nodes has ended with every
\* node completed
MultiNodeDagDone ==
    /\ ~UseDiscussion(mode, plan)
    /\ Len(plan.nodes) >= 2
    /\ pc \in {"after_dag", "synth", "save", "end"}
    /\ Range(role_ids(plan.nodes)) \subseteq completed

\* the executions of the last round that ended with a text
FinalRoundTexts ==
    {k \in DOMAIN endLog : endLog[k].rnd = rnd /\ ~endLog[k].failed}

\* the content_delta events of a role in a round
DeltasOf(role, n) ==
    {j \in EventsOf("content_delta") : events[j].role = role /\ events[j].rnd = n}

\* the role_result events that carry the text of an execution
ResultEventsOf(e) ==
    {j \in EventsOf("role_result") :
       events[j] = Ev("role_result", e.role, e.content, "", e.rnd)}

JoiningRound ==
    /\ pc \in {"run", "dag"}
    /\ tasks # <<>>
    /\ tasks[1].mode = "async"
    /\ joinPos >= 1

\* the role_result events of the running round, in the order emitted
IsResultOfRound(e) == e.type = "role_result" /\ e.rnd = rnd

\* C28 as stated: the events of the nodes of a concurrent round are
\* emitted in completion order: the first role_result of the round is the
\* one of the node that completed first.
C28_CompletionOrder ==
    (JoiningRound /\ firstDone # 0) =>
      LET rs == SelectSeq(events, IsResultOfRound)
      IN rs[1].role = plan.nodes[firstDone].role_id

\* C28, corrected: the role_start events of a concurrent round are emitted
\* in plan order before any node runs, and after all nodes have finished
\* their results are emitted in plan order too (each node's tool events,
\* then its role_result), whatever the order the nodes finished in.
C28_DeclarationOrder ==
    JoiningRound =>
      LET rs == SelectSeq(events, IsResultOfRound)
          js == SelectSeq(endLog, LAMBDA e : e.rnd = rnd)
      IN /\ \A k \in DOMAIN tasks : tasks[k].st = "done"
         /\ \A a \in DOMAIN tasks, b \in DOMAIN tasks :
              a < b => tasks[a].node < tasks[b].node
         /\ Len(rs) = joinPos
         /\ Len(js) = joinPos
         /\ \A j \in 1..joinPos :
              /\ js[j].node = tasks[j].node
              /\ rs[j].role = tasks[j].role
              /\ rs[j].content = tasks[j].content

\* the second node of the round finished first, the first node's result is
\* emitted first
C28_Witness ==
    /\ JoiningRound
    /\ joinPos = Len(tasks)
    /\ firstDone = tasks[2].node
    /\ ~tasks[1].failed
    /\ ~tasks[2].failed
    /\ LET rs == SelectSeq(events, IsResultOfRound)
       IN rs[1].role = tasks[1].role /\ rs[1].role # tasks[2].role

\* the execution wrote its result into role_results: a serial node that
\* completed, or any node of a concurrent round at the join
WroteResult(e) == e.mode = "async" \/ ~e.failed

\* the specialists whose results were written in rounds before round n
WrittenBefore(n) ==
    {endLog[j].role : j \in {k \in DOMAIN endLog :
                               endLog[k].rnd < n /\ WroteResult(endLog[k])}}

\* the specialists of the nodes started in round n
StartedRoles(n) ==
    {plan.nodes[startLog[k][1]].role_id :
       k \in {j \in DOMAIN startLog : startLog[j][2] = n}}

\* C29: the sibling results rendered into the prompt of a node of round k
\* are exactly the role_results entries written in rounds before k; while
\* the nodes of a concurrent round run, role_results stays as it was when
\* the round started; no prompt holds a result of a node of its own round.
C29_PromptsSeeEarlierRoundsOnly ==
    ~UseDiscussion(mode, plan) =>
      /\ \A c \in NodeCalls :
           /\ c.seen = WrittenBefore(c.rnd)
           /\ c.seen \cap StartedRoles(c.rnd) = {}
      /\ (pc = "run" /\ tasks[1].mode = "async" /\ joinPos = 0) =>
           /\ Keys(role_results) = WrittenBefore(rnd)
           /\ \A k \in DOMAIN tasks : tasks[k].seen = Keys(role_results)
           /\ \A i \in DOMAIN role_results :
                \E j \in DOMAIN endLog :
                  /\ endLog[j].rnd < rnd
                  /\ endLog[j].role = role_results[i].role
                  /\ endLog[j].content = role_results[i].content

\* a node of round 2 was prompted with the two results of the concurrent
\* round 1, and a node of a concurrent round with an earlier result
C29_Witness ==
    /\ ~UseDiscussion(mode, plan)
    /\ pc = "end"
    /\ \E c \in NodeCalls :
         /\ c.rnd = 2
         /\ Cardinality(c.seen) = 2
         /\ \E j \in DOMAIN endLog, k \in DOMAIN endLog :
              /\ j # k
              /\ endLog[j].rnd = 1 /\ endLog[j].mode = "async"
              /\ endLog[k].rnd = 1 /\ endLog[k].mode = "async"
              /\ c.seen = {endLog[j].role, endLog[k].role}

\* the results the session's earlier turn persisted
LoadedResults == Range(PriorContext.role_results)

\* the specialists whose results a call of this turn may find produced in
\* this turn: in a discussion the plan entries before the caller's, in a
\* DAG turn the specialists of the executions that have ended
ProducedBefore(c) ==
    IF c.purpose = "initial"
    THEN {plan.nodes[j].role_id : j \in 1..(c.node - 1)}
    ELSE {endLog[j].role : j \in DOMAIN endLog}

\* C30: at every point of a turn, in DAG and in discussion mode,
\* role_results holds only results produced during the turn, and no result
\* loaded from an earlier turn's context is rendered into the prompt of a
\* node or into the synthesis input.
C30_OnlyResultsOfThisTurn ==
    pc # "start" =>
      /\ \A i \in DOMAIN role_results : role_results[i] \notin LoadedResults
      /\ \A c \in calls :
           c.purpose \in {"node", "initial", "synth"} => c.seen \subseteq ProducedBefore(c)

\* a discussion turn of financial_advisor and purchase_consultant on a
\* session that holds an earlier policy_expert result: the result was in
\* the first specialist's prompt and is still in role_results at the end
C30_StaleResultInDiscussion ==
    /\ UseDiscussion(mode, plan)
    /\ pc = "end"
    /\ LastEvent.type = "done"
    /\ "policy_expert" \notin Range(role_ids(plan.nodes))
    /\ \E c \in CallsOf("initial") :
         c.node = 1 /\ c.n = 1 /\ c.seen = {"policy_expert"}
    /\ \E i \in DOMAIN role_results : role_results[i] \in LoadedResults

\* C30 for DAG mode alone
C30_DagResultsOfThisTurn ==
    (pc # "start" /\ ~UseDiscussion(mode, plan)) =>
      /\ \A i \in DOMAIN role_results : role_results[i] \notin LoadedResults
      /\ \A c \in calls :
           c.purpose \in {"node", "synth"} => c.seen \subseteq ProducedBefore(c)

\* from position i on, the message list is assistant messages with tool
\* calls, each followed by one tool message per call, in the order of the
\* calls and with the call's id; the last assistant message still lacks
\* the tool messages of its last "missing" calls
RECURSIVE Paired(_, _, _, _)
Paired(msgs, ids, i, missing) ==
    IF i > Len(msgs) THEN missing = 0
    ELSE /\ msgs[i] = "assistant"
         /\ LET k == Len(ids[i])
                last == \A b \in DOMAIN msgs : b > i => msgs[b] # "assistant"
                have == IF last THEN k - missing ELSE k
            IN /\ k >= 1
               /\ have >= 0
               /\ i + have <= Len(msgs)
               /\ \A j \in 1..have :
                    /\ msgs[i + j] \in {"result", "error"}
                    /\ ids[i + j] = <<ids[i][j]>>
               /\ IF last THEN i + have = Len(msgs)
                  ELSE Paired(msgs, ids, i + k + 1, missing)

\* C31: in every message list of a node, each assistant message with k
\* tool calls is followed by exactly k tool messages, in the order of the
\* calls, each with the id of its call; while the handler works through
\* the calls only the tool messages of the calls not yet processed are
\* missing, and a model call is made only on a list that lacks none.
C31_ToolMessagesPaired ==
    \A i \in DOMAIN tasks :
      LET t == tasks[i]
      IN /\ Len(t.ids) = Len(t.msgs)
         /\ Paired(t.msgs, t.ids, 1, t.pending)
         /\ t.st = "call" => t.pending = 0
         /\ t.st = "tools" => t.pending >= 1

\* the next model call is due on a list of an assistant message with two
\* calls and their two tool messages, one of them an error payload
C31_Witness ==
    \E i \in DOMAIN tasks :
      /\ tasks[i].st = "call"
      /\ tasks[i].msgs = <<"assistant", "error", "result">>
      /\ tasks[i].ids = <<ToolCallIds(1, 2), <<<<1, 1>>>>, <<<<1, 2>>>>>>

\* ---------------------------------------------------------------------
\* C32
\* ---------------------------------------------------------------------

\* the message a tool handler appended for the call it handled last
LastToolMessage ==
    LET t == tasks[lastTool.task] IN t.msgs[Len(t.msgs)]

\* C32: on behalf of a specialist the engine executes a tool only if the
\* tool's name is in the specialist's allowed tool list: a call naming a
\* registered tool outside the list is not executed, so no result of the
\* tool is appended to the specialist's messages.
C32_OnlyAllowedToolsExecuted ==
    (lastTool.case = "foreign" /\ lastTool.task \in DOMAIN tasks)
        => LastToolMessage # "result"

\* C32, the behaviour of the code: tool_registry.get looks the name up in
\* the process-wide registry, so a registered tool outside role.tools is
\* executed and its result is appended as the tool message of the call
C32_ForeignToolExecuted ==
    /\ lastTool.case = "foreign"
    /\ lastTool.task \in DOMAIN tasks
    /\ LastToolMessage = "result"
    /\ tasks[lastTool.task].mode = "live"
    /\ LastEvent.type = "tool_result"

\* ---------------------------------------------------------------------
\* C33
\* ---------------------------------------------------------------------

\* the node list _parse_plan_response hands to _validate_dag
ParsedNodes == ParseNodes(reply.nodes)

PlannedFromNodes ==
    /\ pc = "planned"
    /\ ~input_empty
    /\ reply.kind = "json"
    /\ ParsedNodes # <<>>

\* C33: _validate_dag returns False exactly when the dependency edges
\* between the nodes of the list contain a cycle; for every acyclic list,
\* also one in which two nodes carry the same role_id or one with edges to
\* roles absent from the list, it returns True and the plan returned keeps
\* the declared dependencies.
C33_ValidateDagExact ==
    PlannedFromNodes =>
        /\ validate_dag(ParsedNodes) <=> ~HasCycle(ParsedNodes)
        /\ ~HasCycle(ParsedNodes) => plan.nodes = ParsedNodes

\* C33, the failing case: an acyclic list in which a role_id occurs twice
\* is rejected (visited counts ids, len(nodes) counts nodes) and the
\* dependency a node declared is removed from the plan
C33_AcyclicDuplicateRejected ==
    /\ PlannedFromNodes
    /\ ~HasCycle(ParsedNodes)
    /\ ~validate_dag(ParsedNodes)
    /\ \E i, j \in DOMAIN ParsedNodes :
         i # j /\ ParsedNodes[i].role_id = ParsedNodes[j].role_id
    /\ \E i \in DOMAIN ParsedNodes : ParsedNodes[i].depends_on # {}
    /\ \A i \in DOMAIN plan.nodes : plan.nodes[i].depends_on = {}

\* C33 restricted to lists of distinct role ids: the verdict is exact, and
\* edges to roles absent from the list do not make it False
C33_ExactOnDistinctIds ==
    (PlannedFromNodes
       /\ \A i, j \in DOMAIN ParsedNodes :
            i # j => ParsedNodes[i].role_id # ParsedNodes[j].role_id) =>
        /\ validate_dag(ParsedNodes) <=> ~HasCycle(ParsedNodes)
        /\ ~HasCycle(ParsedNodes) => plan.nodes = ParsedNodes

(***************************************************************************)
(* SpecStream: the streaming calls of one role execution,                  *)
(* _execute_role_stream followed by _handle_tool_calls_stream while the    *)
(* responses carry tool calls.                                             *)
(***************************************************************************)
\* the streaming calls of one role execution
MaxStreamCalls == 2

\* the tool-call deltas of one chunk of a drained stream
MaxStreamDeltas == 1

\* the "async for delta in content_gen" loop has ended normally
Drained_early(s) == s.st \in {"open", "exhausted"}

Drained(s) == s.st = "exhausted"

InitStream ==
    /\ input_empty = FALSE
    /\ reply = NoReply
    /\ plan = NoPlan
    /\ pc = "streaming"
    /\ InitEngineIdle
    /\ InitClientIdle
    /\ InitLibIdle

\* chat_stream_complete: a new collector and a generator not yet started
StreamOpen ==
    /\ pc = "streaming"
    /\ stream.st = "idle"
    /\ stream.call < MaxStreamCalls
    /\ collector' = NewCollector
    /\ added' = <<>>
    /\ stream' = [st |-> "open", call |-> stream.call + 1, yielded |-> <<>>,
                  got |-> 0]
    /\ UNCHANGED <<failures, turnVars, engineVars, libVars>>

\* content_generator: the next chunk of chat_stream is added to the
\* collector and, if it has content, yielded to the loop of the engine
StreamPull ==
    /\ pc = "streaming"
    /\ stream.st = "open"
    /\ Len(added) < MaxAdds
    /\ \E sh \in ChunkShapes, k \in 0..MaxStreamDeltas :
         \E tcs \in [1..k -> Deltas] :
            LET chunk == StreamChunk(sh.content, tcs, sh.finish_reason)
            IN /\ collector' = add_chunk(collector, chunk)
               /\ added' = Append(added, chunk)
               /\ stream' = [stream EXCEPT !.yielded =
                               IF chunk.content # <<>>
                               THEN Append(@, chunk.content) ELSE @]
    /\ UNCHANGED <<failures, turnVars, engineVars, libVars>>

\* chat_stream ends ([DONE] or the end of the response): content_generator
\* and the loop over it end
StreamEnd ==
    /\ pc = "streaming"
    /\ stream.st = "open"
    /\ stream' = [stream EXCEPT !.st = "exhausted"]
    /\ UNCHANGED <<collector, added, failures, turnVars, engineVars, libVars>>

\* chat_stream raises LLMError: it leaves the loop and the role execution
StreamRaise ==
    /\ pc = "streaming"
    /\ stream.st = "open"
    /\ stream' = [stream EXCEPT !.st = "raised"]
    /\ UNCHANGED <<collector, added, failures, turnVars, engineVars, libVars>>

\* result = collector.get_result() after the loop; with tool calls the
\* handler runs them and makes the next streaming call, without them the
\* role execution is over
StreamResult ==
    /\ pc = "streaming"
    /\ Drained(stream)
    /\ LET result == get_result(collector)
       IN stream' = [stream EXCEPT
                       !.got = @ + 1,
                       !.st = IF result.tool_calls # <<>>
                                 /\ stream.call < MaxStreamCalls
                              THEN "idle" ELSE "done"]
    /\ UNCHANGED <<collector, added, failures, turnVars, engineVars, libVars>>

NextStream ==
    \/ StreamOpen
    \/ StreamPull
    \/ StreamEnd
    \/ StreamRaise
    \/ StreamResult

SpecStream == InitStream /\ [][NextStream]_vars

\* ---------------------------------------------------------------------
\* C34
\* ---------------------------------------------------------------------

\* C34: for every streaming call of a role execution, get_result is called
\* on the call's collector only after the call's fragment stream is
\* exhausted, it is called once (the role execution goes on to the next
\* call, or ends, with exactly one get_result made), and at that moment the
\* collector's content is the concatenation of the fragments yielded.
C34_GetResultAfterDrain ==
    [][/\ stream'.got # stream.got /\ stream'.got > 0 =>
            /\ stream.st = "exhausted"
            /\ stream.got = 0
            /\ stream'.got = 1
            /\ collector.content = Flatten(stream.yielded)
            /\ get_result(collector).content = Flatten(stream.yielded)
       /\ stream'.st = "done" => stream'.got = 1
       /\ (stream'.call # stream.call /\ stream.call > 0) => stream.got = 1
      ]_vars

\* C34 witness: the second streaming call of a role execution yielded two
\* fragments and its result was taken
C34_Witness ==
    /\ pc = "streaming"
    /\ stream.st = "done"
    /\ stream.call = 2
    /\ stream.got = 1
    /\ Len(stream.yielded) = 2
    /\ collector.content = Flatten(stream.yielded)

\* ---------------------------------------------------------------------
\* C35
\* ---------------------------------------------------------------------

\* a DAG-mode turn without synthesis call has appended its final result
UnsynthesizedAnswer ==
    /\ ~UseDiscussion(mode, plan)
    /\ pc \in {"save", "end"}
    /\ pc = "end" => LastEvent.type = "done"
    /\ SynthCalls = {}
    /\ role_results # <<>>

\* the executions that wrote an entry of role_results, in the order they
\* were finished
Writers == {j \in DOMAIN endLog : ~endLog[j].failed \/ endLog[j].mode = "async"}

LastOf(S) == CHOOSE j \in S : \A k \in S : k <= j

\* the synthesizer's result of this turn if it produced one, otherwise the
\* result of the specialist that completed last
CanonicalAnswer ==
    LET own == {j \in Writers : endLog[j].role = Synthesizer}
    IN IF own # {} THEN endLog[LastOf(own)].content
       ELSE endLog[LastOf(Writers)].content

\* C35 (first half): the assistant message appended by a DAG turn without
\* synthesis call is the synthesizer's result if it produced one this turn,
\* otherwise the result of the specialist that completed last.
C35_HistoryHoldsCanonicalAnswer ==
    UnsynthesizedAnswer =>
        /\ Writers # {}
        /\ LastMessage = Msg("assistant", CanonicalAnswer)

\* C35: when a DAG turn makes no synthesis call and at least one result
\* exists, the assistant message appended to the history is the
\* synthesizer's result if the synthesizer produced one this turn,
\* otherwise the result of the specialist that completed last, and this is
\* also the content of the last role_result event the caller received.
C35_AnswerIsLastRoleResult ==
    UnsynthesizedAnswer =>
        /\ Writers # {}
        /\ LastMessage = Msg("assistant", CanonicalAnswer)
        /\ EventsOf("role_result") # {}
        /\ events[LastOf(EventsOf("role_result"))].content = CanonicalAnswer

\* C35, the failing case: no execution failed, the synthesizer ran as a
\* node before another specialist; the history holds the synthesizer's
\* result while the last role_result event carries the other specialist's
C35_AnswerNotLastEvent ==
    /\ UnsynthesizedAnswer
    /\ \A j \in DOMAIN endLog : ~endLog[j].failed
    /\ Len(endLog) = Len(plan.nodes)
    /\ \A i, j \in DOMAIN plan.nodes :
         i # j => plan.nodes[i].role_id # plan.nodes[j].role_id
    /\ LastMessage = Msg("assistant", CanonicalAnswer)
    /\ EventsOf("role_result") # {}
    /\ LET e == events[LastOf(EventsOf("role_result"))]
       IN /\ e.role # Synthesizer
          /\ e.content # CanonicalAnswer

(***************************************************************************)
(* SpecSession: the turns made on one session id. Each turn is             *)
(* AgentEngine.process seen from the store: _load_context and add_message, *)
(* the execution (which ends with an answer, without one, or with an       *)
(* exception), and _save_context. The turns interleave at every await.     *)
(***************************************************************************)
\* the turns made on the session
MaxTurns == 2

\* the user message and the answer of turn i
Question(i) == <<<<"q", i, 0, 0>>>>

Answer(i) == <<<<"a", i, 0, 0>>>>

\* how the execution of a turn ends: with a final result appended to the
\* history, with no result at all, or with an exception
Outcomes == {"answered", "unanswered", "error"}

NewTurn == [st |-> "new", history |-> <<>>, role_results |-> <<>>,
            loaded |-> <<>>]

StoreOp(op, i, ok) == [op |-> op, turn |-> i, ok |-> ok]

InitSession ==
    /\ InitTurnIdle("session")
    /\ mode = "standard"
    /\ stored \in {NoContext, PriorContext}
    /\ history = <<>>
    /\ role_results = <<>>
    /\ completed = {}
    /\ rnd = 0
    /\ tasks = <<>>
    /\ joinPos = 0
    /\ events = <<>>
    /\ toolCalls = 0
    /\ disc = NoDisc
    /\ startLog = <<>>
    /\ endLog = <<>>
    /\ firstDone = 0
    /\ calls = {}
    /\ lastTool = NoTool
    /\ fault = NoFault
    /\ InitClientIdle
    /\ ready = NoReady
    /\ registry = <<>>
    /\ regOps = <<>>
    /\ execution = NoExecution
    /\ session = [turns |-> [i \in 1..MaxTurns |-> NewTurn], log |-> <<>>]

\* context = await self._load_context(session_id);
\* context.add_message("user", user_input)
SessionLoad(i) ==
    /\ pc = "session"
    /\ session.turns[i].st = "new"
    /\ \E hit \in BOOLEAN :
         LET ctx == load_context(stored, hit)
         IN session' = [session EXCEPT
                          !.turns[i] = [st |-> "running",
                                        history |-> Append(ctx.history,
                                                           Msg("user", Question(i))),
                                        role_results |-> <<>>,
                                        loaded |-> ctx.history],
                          !.log = Append(@, StoreOp("load", i, hit))]
    /\ UNCHANGED <<turnVars, engineVars, clientVars>>
    /\ UNCHANGED <<ready, registry, regOps, execution>>

\* planning and _process_dag_mode: the final result, if there is one, is
\* appended to the history; an exception ends the turn with the error event
SessionRun(i) ==
    /\ pc = "session"
    /\ session.turns[i].st = "running"
    /\ \E o \in Outcomes :
         LET rr == IF o = "answered"
                   THEN <<[role |-> Synthesizer, content |-> Answer(i)]>>
                   ELSE <<>>
         IN session' = [session EXCEPT
                          !.turns[i].st = IF o = "error" THEN pc_after_error
                                          ELSE "save",
                          !.turns[i].role_results = rr,
                          !.turns[i].history =
                               IF o = "error" THEN @ ELSE AddFinalResult(@, rr)]
    /\ UNCHANGED <<turnVars, engineVars, clientVars>>
    /\ UNCHANGED <<ready, registry, regOps, execution>>

\* await self._save_context(context), then the done event
SessionSave(i) ==
    /\ pc = "session"
    /\ session.turns[i].st = "save"
    /\ \E ok \in BOOLEAN :
         LET t == session.turns[i]
             r == save_context(t.history, t.role_results, stored, ok)
         IN /\ stored' = r.store
            /\ session' = [session EXCEPT
                             !.turns[i].st = "done",
                             !.log = Append(@, StoreOp("save", i, ok))]
    /\ UNCHANGED <<input_empty, reply, plan, pc, mode, history, role_results,
                   completed, rnd, tasks, joinPos, events, toolCalls, disc,
                   startLog, endLog, firstDone, calls, fault, lastTool>>
    /\ UNCHANGED clientVars
    /\ UNCHANGED <<ready, registry, regOps, execution>>

NextSession ==
    \/ \E i \in 1..MaxTurns : SessionLoad(i)
    \/ \E i \in 1..MaxTurns : SessionRun(i)
    \/ \E i \in 1..MaxTurns : SessionSave(i)

SpecSession == InitSession /\ [][NextSession]_vars

\* ---------------------------------------------------------------------
\* C36
\* ---------------------------------------------------------------------

\* the positions of the log at which turn i called the store
OpsOf(op, i) == {k \in DOMAIN session.log :
                    session.log[k].op = op /\ session.log[k].turn = i}

\* the writes that reached the store
Writes == {k \in DOMAIN session.log :
              session.log[k].op = "save" /\ session.log[k].ok}

TurnOver(i) == session.turns[i].st \in {"done", "end"}

\* turns i and j both loaded the context before either saved
Overlapping(i, j) ==
    /\ i # j
    /\ OpsOf("load", i) # {} /\ OpsOf("load", j) # {}
    /\ \A l \in OpsOf("load", i) \cup OpsOf("load", j) :
         \A w \in OpsOf("save", i) \cup OpsOf("save", j) : l < w

MessagesOf(i) == {Msg("user", Question(i)), Msg("assistant", Answer(i))}

\* C36: if two turns on the same session id overlap so that both load the
\* context before either saves, the context persisted after both have
\* finished is exactly the one written by the turn that saved last, and
\* contains neither the user message nor the assistant message of the
\* other turn.
C36_LastWriterWins ==
    \A i, j \in DOMAIN session.turns :
        (Overlapping(i, j) /\ TurnOver(i) /\ TurnOver(j) /\ Writes # {}
           /\ session.log[LastOf(Writes)].turn = i) =>
            /\ stored = [history |-> session.turns[i].history,
                         role_results |-> session.turns[i].role_results,
                         present |-> TRUE]
            /\ Range(stored.history) \cap MessagesOf(j) = {}

\* C36 witness: both turns loaded the context an earlier turn persisted,
\* both answered and both wrote; the store holds the second writer's
\* context, in which the first writer's turn has left nothing
C36_Witness ==
    /\ pc = "session"
    /\ Overlapping(1, 2)
    /\ TurnOver(1) /\ TurnOver(2)
    /\ Cardinality(Writes) = 2
    /\ session.log[LastOf(Writes)].turn = 1
    /\ session.turns[2].history =
         PriorContext.history \o <<Msg("user", Question(2)),
                                   Msg("assistant", Answer(2))>>
    /\ stored.history =
         PriorContext.history \o <<Msg("user", Question(1)),
                                   Msg("assistant", Answer(1))>>

\* ---------------------------------------------------------------------
\* C37
\* ---------------------------------------------------------------------

\* the store holds what it held when the turn started
StoreUntouched ==
    /\ stored \in {NoContext, PriorContext}
    /\ Msg("user", UserText) \notin Range(stored.history)

\* C37: a turn that ends with an error event leaves the persisted context
\* of the session unchanged; the context is written to the store only on
\* the path that ends with done, so the user message of a failed turn is
\* not in the context the next turn loads.
C37_FailedTurnLeavesStore ==
    /\ EventsOf("error") # {} => StoreUntouched
    /\ ~StoreUntouched => (pc = "end" /\ LastEvent.type = "done")

\* C37 witness: a turn on a session with a persisted context ended with an
\* error event after a specialist had produced a result; the history of the
\* turn holds the user message, the store does not
C37_Witness ==
    /\ pc = "end"
    /\ LastEvent.type = "error"
    /\ mode = "standard"
    /\ \E j \in DOMAIN endLog : ~endLog[j].failed
    /\ Msg("user", UserText) \in Range(history)
    /\ stored = PriorContext

\* ---------------------------------------------------------------------
\* C38
\* ---------------------------------------------------------------------

IsPrefix(a, b) == Len(a) <= Len(b) /\ SubSeq(b, 1, Len(a)) = a

\* hist is what was loaded, then one user message, then at most one
\* assistant message
OneExchange(loaded, hist, user) ==
    /\ IsPrefix(Append(loaded, Msg("user", user)), hist)
    /\ Len(hist) <= Len(loaded) + 2
    /\ Len(hist) = Len(loaded) + 2 => hist[Len(hist)].role = "assistant"

\* C38 within one turn of the engine: from the load on, the history is the
\* loaded history, one user message appended before planning, and at most
\* one assistant message, which is appended when all node and synthesis
\* events have been emitted; no step removes or rewrites a message.
C38_TurnHistoryAppendOnly ==
    [][/\ pc # "start" => IsPrefix(history, history')
       /\ pc' # "start" =>
            /\ \E loaded \in {NoContext.history, PriorContext.history} :
                 OneExchange(loaded, history', UserText)
            /\ history'[Len(history')].role = "assistant" =>
                 pc' \in {"save", "end"}
       /\ pc \in {"save", "end"} =>
            \A k \in DOMAIN events' :
                k > Len(events) => events'[k].type \in {"done", "error"}
      ]_vars

\* turn j started after turn i was over
After(i, j) ==
    /\ OpsOf("load", i) # {} /\ OpsOf("load", j) # {}
    /\ TurnOver(i)
    /\ \A l \in OpsOf("load", j) :
         \A k \in OpsOf("load", i) \cup OpsOf("save", i) : k < l

\* no two turns of the session overlapped, turn j started after turn i and
\* no other turn wrote the store between the writes of i and j
Sequential(i, j) ==
    /\ After(i, j)
    /\ \A a, b \in DOMAIN session.turns :
         (a # b /\ OpsOf("load", a) # {} /\ OpsOf("load", b) # {}) =>
            After(a, b) \/ After(b, a)
    /\ \A w \in Writes :
         session.log[w].turn \notin {i, j} =>
            \/ \A k \in OpsOf("save", i) : w < k
            \/ \A k \in OpsOf("save", j) : w > k

Wrote(i) == \E k \in OpsOf("save", i) : session.log[k].ok

Loaded(i) == \E k \in OpsOf("load", i) : session.log[k].ok

\* what turn i persisted
Persisted(i) == session.turns[i].history

\* C38: within one turn the history is append-only and receives exactly
\* one user message, appended before planning, and at most one assistant
\* message; for sequential turns on a session with no expiry or clear in
\* between, the history persisted by a turn is a prefix of the history
\* persisted by the next successful turn.
C38_PersistedPrefix ==
    /\ \A i \in DOMAIN session.turns :
         session.turns[i].st # "new" =>
            OneExchange(session.turns[i].loaded, session.turns[i].history,
                        Question(i))
    /\ \A i, j \in DOMAIN session.turns :
         (Sequential(i, j) /\ Wrote(i) /\ Wrote(j)) =>
            IsPrefix(Persisted(i), Persisted(j))

\* C38 as the code has it: the history persisted by a turn is a prefix of
\* the history persisted by the next successful turn when that turn's load
\* of the context succeeded; a turn whose load failed starts from a fresh
\* context and persists a history that holds its own messages only.
C38_PersistedPrefixWhenLoaded ==
    /\ \A i \in DOMAIN session.turns :
         session.turns[i].st # "new" =>
            OneExchange(session.turns[i].loaded, session.turns[i].history,
                        Question(i))
    /\ \A i, j \in DOMAIN session.turns :
         (Sequential(i, j) /\ Wrote(i) /\ Wrote(j)) =>
            IF Loaded(j)
            THEN IsPrefix(Persisted(i), Persisted(j))
            ELSE /\ session.turns[j].loaded = <<>>
                 /\ ~IsPrefix(Persisted(i), Persisted(j))

\* C38 witness: the second turn loaded what the first persisted, answered
\* and persisted a history that extends the first turn's by two messages
C38_Witness ==
    /\ pc = "session"
    /\ Sequential(1, 2)
    /\ Wrote(1) /\ Wrote(2) /\ Loaded(2)
    /\ stored.history = Persisted(2)
    /\ Len(Persisted(1)) = Len(PriorContext.history) + 2
    /\ Persisted(2) = Persisted(1) \o <<Msg("user", Question(2)),
                                        Msg("assistant", Answer(2))>>

\* ---------------------------------------------------------------------
\* C39
\* ---------------------------------------------------------------------

\* the specialists of the nodes of the running round
RoundRoles(ts) == {ts[k].role : k \in DOMAIN ts}

\* C39: the DAG scheduling loop ends after at most N rounds for a plan of
\* N nodes: the completed set never shrinks, every round starts with nodes
\* of specialists that are not in it, and when the round is over (every
\* execution of the round returned) they all are, so every round that runs
\* adds at least one new specialist id.
C39_LoopBoundedByNodes ==
    [][~UseDiscussion(mode', plan') =>
        /\ completed \subseteq completed'
        /\ rnd' <= Len(plan'.nodes)
        /\ Cardinality(completed') <= Len(plan'.nodes)
        /\ rnd' = rnd + 1 =>
             /\ tasks' # <<>>
             /\ RoundRoles(tasks') \cap completed = {}
        /\ (pc = "run" /\ pc' = "dag") =>
             /\ RoundRoles(tasks) # {}
             /\ RoundRoles(tasks) \subseteq completed'
        /\ pc' = "dag" => Cardinality(completed') >= rnd'
      ]_vars

\* C39 witness: a plan of MaxNodes nodes whose loop ended after MaxNodes
\* rounds, one new specialist id per round
C39_Witness ==
    /\ DagLoopEnded
    /\ Len(plan.nodes) = MaxNodes
    /\ rnd = MaxNodes
    /\ Cardinality(completed) = MaxNodes

\* ---------------------------------------------------------------------
\* C40
\* ---------------------------------------------------------------------

\* the named tool is in the registry and its execution returned a result
RegisteredAndReturned(c) ==
    /\ c # "unknown_tool"
    /\ c \notin {"bad_json", "non_object", "invalid_args", "exec_raises"}

\* the events a step added
Emitted(old, new) == SubSeq(new, Len(old) + 1, Len(new))

\* C40: in a live or silent node, the handling of one tool call emits the
\* tool_call event and, before anything else of the node (the next
\* tool_call event, the next model call), the tool_result event of the
\* same specialist exactly when the named tool is registered and its
\* execution returns without exception; for an unknown tool or a failing
\* execution only the tool_call event is emitted, and the tool message is
\* appended to the messages for the model in both cases. No tool_result
\* event is emitted otherwise.
C40_ToolResultIffExecuted ==
    [][/\ (lastTool'.case # "none"
             /\ tasks[lastTool'.task].mode \in {"live", "silent"}) =>
            LET i == lastTool'.task
                c == lastTool'.case
                new == Emitted(events, events')
            IN /\ new # <<>>
               /\ new[1].type = "tool_call"
               /\ new[1].role = tasks[i].role
               /\ IF RegisteredAndReturned(c)
                  THEN /\ Len(new) = 2
                       /\ new[2].type = "tool_result"
                       /\ new[2].role = tasks[i].role
                  ELSE Len(new) = 1
               /\ Len(tasks'[i].msgs) = Len(tasks[i].msgs) + 1
               /\ tasks'[i].msgs[Len(tasks'[i].msgs)] =
                    IF RegisteredAndReturned(c) THEN "result" ELSE "error"
       /\ lastTool'.case = "none" =>
            \A k \in DOMAIN Emitted(events, events') :
                (mode' = "standard" /\ Len(tasks) = 1) =>
                    Emitted(events, events')[k].type
                        \notin {"tool_call", "tool_result"}
      ]_vars

\* C40 witness: in a silent node a call that failed left a tool_call event
\* without tool_result, and the call after it, which returned, has both
\* events
C40_Witness ==
    /\ lastTool.case = "ok"
    /\ lastTool.task \in DOMAIN tasks
    /\ tasks[lastTool.task].mode = "silent"
    /\ tasks[lastTool.task].msgs = <<"assistant", "error", "result">>
    /\ Len(events) >= 3
    /\ events[Len(events) - 2].type = "tool_call"
    /\ events[Len(events) - 1].type = "tool_call"
    /\ events[Len(events)].type = "tool_result"

=============================================================================
